---------------------------- MODULE Spec2Model ----------------------------
(***************************************************************************)
(* A model of the cmi5-playground core: the CMI5 learning engine           *)
(* (packages/cmi5-engine/src/engine.ts, CMI5LearningEngine.evaluate) and   *)
(* the spaced-repetition scheduler (FSRSService.applyFSRS).                *)
(*                                                                         *)
(* Numbers.  Mastery values and mastery scores are JavaScript numbers in   *)
(* [0,1]; the model counts them in hundredths (0.8 is 80).  An average is  *)
(* kept as the exact fraction [num, den], and "average >= score" is the    *)
(* cross-multiplied comparison.  An optional value (a field that may be    *)
(* undefined) is the empty sequence or a one-element sequence.             *)
(***************************************************************************)
EXTENDS Integers, Sequences, FiniteSets, TLC

VARIABLES
    index,      \* CMI5LearningEngine.index: courseId and the Map of AU descriptors
    options,    \* CMI5LearningEngine.options
    progress,   \* the CMI5LearningEngineProgress value the caller holds and passes
    snapshot,   \* the CMI5LearningEngineSnapshot returned by the last evaluate call
    memo,       \* the arguments and the snapshot of an earlier evaluate call, or None
    service,    \* the fields of the FSRSService: agent, thresholds, launch actor
    stored,     \* the FSRS state the LRS stores for an item, or None before its first review
    statements, \* the milestone types of the review statements the LRS stores
    allStates,  \* the Map of lrs.getAllFSRSStates: item ids and nextReview, in row order
    dueOptions, \* the DueQueryOptions of the last getDueLearnerStates call and its clock
    dueStates,  \* what the last getDueLearnerStates call returned, or None
    learner,    \* a LearnerState handed to calculateMastery, or None
    estimate,   \* what the last calculateMastery call returned, or None
    rows,       \* the rows of the LRS table cmi5_state, in insertion order
    manager,    \* the fields of a CMI5StateManager, or None where its constructor threw
    loaded,     \* the state of a second CMI5StateManager after initialize(), or None
    overall,    \* the arguments and the value of the last getOverallMastery call, or None
    tree,       \* a CMI5 UNIST tree handed to validateCMI5Tree, or None
    validation, \* the CMI5ValidationResult of the last validateCMI5Tree call, or None
    cloud,      \* the fields of a CloudSyncManager: options.enabled, status.syncing, ...
    microtasks, \* the continuations of its async methods that wait to run, in queue order
    timers,     \* the setInterval timers that are scheduled (not cleared)
    halted      \* stop() or disable() was the last of start, enable, stop, disable called

engineVars == <<index, options, progress, snapshot, memo>>

fsrsVars == <<service, stored, statements>>

dueVars == <<allStates, dueOptions, dueStates>>

masteryVars == <<learner, estimate>>

clientVars == <<rows, manager, loaded, overall>>

treeVars == <<tree, validation>>

syncVars == <<cloud, microtasks, timers, halted>>

vars == <<engineVars, fsrsVars, dueVars, masteryVars, clientVars, treeVars, syncVars>>

\* What each component leaves alone
nonEngineVars == <<fsrsVars, dueVars, masteryVars, clientVars, treeVars, syncVars>>

nonFsrsVars == <<engineVars, dueVars, masteryVars, clientVars, treeVars, syncVars>>

nonDueVars == <<engineVars, fsrsVars, masteryVars, clientVars, treeVars, syncVars>>

nonMasteryVars == <<engineVars, fsrsVars, dueVars, clientVars, treeVars, syncVars>>

nonClientVars == <<engineVars, fsrsVars, dueVars, masteryVars, treeVars, syncVars>>

nonTreeVars == <<engineVars, fsrsVars, dueVars, masteryVars, clientVars, syncVars>>

nonSyncVars == <<engineVars, fsrsVars, dueVars, masteryVars, clientVars, treeVars>>

\* No FSRSService is in use: nothing constructed, nothing stored.
FsrsIdle ==
    /\ service = <<>>
    /\ stored = <<>>
    /\ statements = <<>>

\* No getDueLearnerStates call is made.
DueIdle ==
    /\ allStates = <<>>
    /\ dueOptions = <<>>
    /\ dueStates = <<>>

\* No calculateMastery call is made outside recordReview.
MasteryIdle ==
    /\ learner = <<>>
    /\ estimate = <<>>

\* No CMI5StateManager is in use and the LRS holds no state row.
ClientIdle ==
    /\ rows = <<>>
    /\ manager = <<>>
    /\ loaded = <<>>
    /\ overall = <<>>

\* No validateCMI5Tree call is made.
TreeIdle ==
    /\ tree = <<>>
    /\ validation = <<>>

\* No CloudSyncManager is in use.
SyncIdle ==
    /\ cloud = <<>>
    /\ microtasks = <<>>
    /\ timers = <<>>
    /\ halted = <<>>

\* The components around the engine and the scheduler are not in use.
ToolsIdle ==
    /\ DueIdle
    /\ MasteryIdle
    /\ ClientIdle
    /\ TreeIdle
    /\ SyncIdle

ServicesIdle ==
    /\ FsrsIdle
    /\ ToolsIdle

(***************************************************************************)
(* Optional values and Maps                                                *)
(***************************************************************************)
None == <<>>

Some(v) == <<v>>

\* o ?? d
OrElse(o, d) == IF o # None THEN o[1] ELSE d

\* A JavaScript Map: the keys in insertion order, and the value of each key.
EmptyMap == [keys |-> <<>>, val |-> <<>>]

MapHas(m, k) == k \in DOMAIN m.val

\* Map.set: a new key goes last, a known key keeps its place and gets the value.
MapSet(m, k, v) ==
    [keys |-> IF MapHas(m, k) THEN m.keys ELSE Append(m.keys, k),
     val  |-> (k :> v) @@ m.val]

\* Map.get, as an optional value
MapGet(m, k) == IF MapHas(m, k) THEN Some(m.val[k]) ELSE None

Range(s) == {s[i] : i \in DOMAIN s}

\* Array.includes
Includes(s, x) == x \in Range(s)

(***************************************************************************)
(* Program constants                                                       *)
(***************************************************************************)
DEFAULT_MASTERY_SCORE == 80

LessonStatus == {"locked", "available", "in-progress", "completed", "passed"}

MoveOnCriteria == {"Passed", "Completed", "CompletedAndPassed", "NotApplicable"}

(***************************************************************************)
(* buildCourseIndex                                                        *)
(***************************************************************************)
AUDescriptor(au) ==
    [id                 |-> au.id,
     order              |-> OrElse(au.order, 0),
     prerequisites      |-> OrElse(au.prerequisites, <<>>),
     objectives         |-> au.objectives,
     masteryScore       |-> au.masteryScore,
     moveOn             |-> au.moveOn,
     completionCriteria |-> au.completionCriteria]

RECURSIVE IndexAUs(_, _)
IndexAUs(units, aus) ==
    IF units = <<>> THEN aus
    ELSE IndexAUs(Tail(units), MapSet(aus, Head(units).id, AUDescriptor(Head(units))))

buildCourseIndex(course) ==
    [courseId |-> course.id,
     aus      |-> IndexAUs(course.assignableUnits, EmptyMap)]

(***************************************************************************)
(* resolveObjectiveState: the record under the objective id, else under    *)
(* its nodeId, else under its kubitId; None when there is none.            *)
(***************************************************************************)
\* Mutant: the kubitId is tried before the nodeId.
resolveObjectiveState_KubitFirst(objective, objectiveStates, masteryScore) ==
    IF objectiveStates = None THEN None
    ELSE LET states == objectiveStates[1] IN
         IF objective.id \in DOMAIN states THEN Some(states[objective.id])
         ELSE IF objective.kubitId # None /\ objective.kubitId[1] \in DOMAIN states
              THEN Some(states[objective.kubitId[1]])
         ELSE IF objective.nodeId # None /\ objective.nodeId[1] \in DOMAIN states
              THEN Some(states[objective.nodeId[1]])
         ELSE None

resolveObjectiveState(objective, objectiveStates, masteryScore) ==
    IF objectiveStates = None THEN None
    ELSE LET states == objectiveStates[1] IN
         IF objective.id \in DOMAIN states THEN Some(states[objective.id])
         ELSE IF objective.nodeId # None /\ objective.nodeId[1] \in DOMAIN states
              THEN Some(states[objective.nodeId[1]])
         ELSE IF objective.kubitId # None /\ objective.kubitId[1] \in DOMAIN states
              THEN Some(states[objective.kubitId[1]])
         ELSE None

(***************************************************************************)
(* aggregateStatus                                                         *)
(***************************************************************************)
Count(statuses, s) == Cardinality({i \in DOMAIN statuses : statuses[i] = s})

\* Mutant: a finished unit beside a locked or available one is not in-progress.
aggregateStatus_NoMix(statuses) ==
    IF Len(statuses) = 0 THEN "locked"
    ELSE IF Count(statuses, "locked") = Len(statuses) THEN "locked"
    ELSE IF Count(statuses, "passed") = Len(statuses) THEN "passed"
    ELSE IF Count(statuses, "completed") + Count(statuses, "passed") = Len(statuses)
         THEN "completed"
    ELSE IF Count(statuses, "in-progress") > 0 THEN "in-progress"
    ELSE IF Count(statuses, "available") > 0 THEN "available"
    ELSE "locked"

aggregateStatus(statuses) ==
    IF Len(statuses) = 0 THEN "locked"
    ELSE LET locked     == Count(statuses, "locked")
             available  == Count(statuses, "available")
             inProgress == Count(statuses, "in-progress")
             completed  == Count(statuses, "completed")
             passed     == Count(statuses, "passed")
         IN  IF locked = Len(statuses) THEN "locked"
             ELSE IF passed = Len(statuses) THEN "passed"
             ELSE IF completed + passed = Len(statuses) THEN "completed"
             ELSE IF inProgress > 0
                     \/ (completed + passed > 0 /\ (locked > 0 \/ available > 0))
                  THEN "in-progress"
             ELSE IF available > 0 THEN "available"
             ELSE "locked"

(***************************************************************************)
(* evaluateCompletionCriteria                                              *)
(***************************************************************************)
\* An exact fraction num/den (den > 0), and its comparison with a score.
Avg(sum, total) == [num |-> sum, den |-> total]

AvgGE(avg, score) == avg.num >= score * avg.den

\* Boolean(x) of an optional boolean
Truthy(o) == o # None /\ o[1]

\* lessonSignals?.contentCompleted, lessonSignals?.exercisesCompleted
SignalContent(signal) == IF signal = None THEN None ELSE signal[1].contentCompleted

SignalExercises(signal) == IF signal = None THEN None ELSE signal[1].exercisesCompleted

\* criteria?.field
CriteriaField(criteria, field) == IF criteria = None THEN None ELSE criteria[1][field]

\* Mutant: masteryPercentage is compared with the mastery average, not with the
\* fraction of mastered objectives.
CompletionChecks_PercentOfAverage(criteria, objectiveMasteryAverage, objectiveMasteredCount, objectiveTotal, lessonSignals) ==
    LET requiresContent   == Truthy(CriteriaField(criteria, "requireAllContent"))
        requiresExercises == Truthy(CriteriaField(criteria, "requireAllExercises"))
        masteryScore      == CriteriaField(criteria, "masteryScore")
        masteryPercentage == CriteriaField(criteria, "masteryPercentage")
        minMasteredCount  == CriteriaField(criteria, "minMasteredCount")
    IN  (IF masteryScore # None
            THEN <<AvgGE(objectiveMasteryAverage, masteryScore[1])>> ELSE <<>>)
     \o (IF masteryPercentage # None /\ objectiveTotal > 0
            THEN <<AvgGE(objectiveMasteryAverage, masteryPercentage[1])>>
            ELSE <<>>)
     \o (IF minMasteredCount # None
            THEN <<objectiveMasteredCount >= minMasteredCount[1]>> ELSE <<>>)
     \o (IF requiresContent THEN <<Truthy(SignalContent(lessonSignals))>> ELSE <<>>)
     \o (IF requiresExercises THEN <<Truthy(SignalExercises(lessonSignals))>> ELSE <<>>)

\* Mutant: the masteryPercentage check is constructed for a unit without
\* objectives too (0 mastered of 0 meets no positive percentage).
CompletionChecks_PercentOfNone(criteria, objectiveMasteryAverage, objectiveMasteredCount, objectiveTotal, lessonSignals) ==
    LET requiresContent   == Truthy(CriteriaField(criteria, "requireAllContent"))
        requiresExercises == Truthy(CriteriaField(criteria, "requireAllExercises"))
        masteryScore      == CriteriaField(criteria, "masteryScore")
        masteryPercentage == CriteriaField(criteria, "masteryPercentage")
        minMasteredCount  == CriteriaField(criteria, "minMasteredCount")
    IN  (IF masteryScore # None
            THEN <<AvgGE(objectiveMasteryAverage, masteryScore[1])>> ELSE <<>>)
     \o (IF masteryPercentage # None
            THEN <<objectiveTotal > 0
                   /\ objectiveMasteredCount * 100 >= masteryPercentage[1] * objectiveTotal>>
            ELSE <<>>)
     \o (IF minMasteredCount # None
            THEN <<objectiveMasteredCount >= minMasteredCount[1]>> ELSE <<>>)
     \o (IF requiresContent THEN <<Truthy(SignalContent(lessonSignals))>> ELSE <<>>)
     \o (IF requiresExercises THEN <<Truthy(SignalExercises(lessonSignals))>> ELSE <<>>)

\* checks.push(...) for each criterion that is configured
CompletionChecks(criteria, objectiveMasteryAverage, objectiveMasteredCount, objectiveTotal, lessonSignals) ==
    LET requiresContent   == Truthy(CriteriaField(criteria, "requireAllContent"))
        requiresExercises == Truthy(CriteriaField(criteria, "requireAllExercises"))
        masteryScore      == CriteriaField(criteria, "masteryScore")
        masteryPercentage == CriteriaField(criteria, "masteryPercentage")
        minMasteredCount  == CriteriaField(criteria, "minMasteredCount")
    IN  (IF masteryScore # None
            THEN <<AvgGE(objectiveMasteryAverage, masteryScore[1])>> ELSE <<>>)
     \o (IF masteryPercentage # None /\ objectiveTotal > 0
            THEN <<objectiveMasteredCount * 100 >= masteryPercentage[1] * objectiveTotal>>
            ELSE <<>>)
     \o (IF minMasteredCount # None
            THEN <<objectiveMasteredCount >= minMasteredCount[1]>> ELSE <<>>)
     \o (IF requiresContent THEN <<Truthy(SignalContent(lessonSignals))>> ELSE <<>>)
     \o (IF requiresExercises THEN <<Truthy(SignalExercises(lessonSignals))>> ELSE <<>>)

evaluateCompletionCriteria(criteria, objectiveMasteryAverage, objectiveMasteredCount, objectiveTotal, lessonSignals, defaultMasteryScore) ==
    LET requiresContent   == Truthy(CriteriaField(criteria, "requireAllContent"))
        requiresExercises == Truthy(CriteriaField(criteria, "requireAllExercises"))
        checks == CompletionChecks(criteria, objectiveMasteryAverage,
                                   objectiveMasteredCount, objectiveTotal, lessonSignals)
        isComplete ==
            IF Len(checks) = 0
            THEN IF objectiveTotal > 0
                 THEN objectiveMasteredCount = objectiveTotal
                 ELSE Truthy(SignalContent(lessonSignals))
                      \/ Truthy(SignalExercises(lessonSignals))
            ELSE \A i \in DOMAIN checks : checks[i]
    IN  [isComplete        |-> isComplete,
         requiresContent   |-> requiresContent,
         requiresExercises |-> requiresExercises]

(***************************************************************************)
(* CMI5LearningEngine.evaluate, first pass: the facts of one AU             *)
(***************************************************************************)
\* progress.cmi5State?.objectiveStates
ProgressObjectiveStates(prog) ==
    IF prog.cmi5State = None THEN None ELSE Some(prog.cmi5State[1].objectiveStates)

\* progress.cmi5State?.progress.completedLessons || []
ProgressCompletedAUs(prog) ==
    IF prog.cmi5State = None THEN <<>> ELSE prog.cmi5State[1].progress.completedLessons

\* progress.cmi5State?.progress.currentLesson
ProgressCurrentAU(prog) ==
    IF prog.cmi5State = None THEN None ELSE prog.cmi5State[1].progress.currentLesson

\* (progress.lessonSignals || {})[auId]
ProgressLessonSignal(prog, auId) ==
    IF prog.lessonSignals = None THEN None
    ELSE IF auId \in DOMAIN prog.lessonSignals[1] THEN Some(prog.lessonSignals[1][auId])
    ELSE None

\* Mutant: the stored satisfied flag is not consulted, mastery alone decides.
SatisfiedOf_MasteryOnly(state, mastery, masteryScore) ==
    mastery >= masteryScore

\* state?.satisfied ?? mastery >= masteryScore
SatisfiedOf(state, mastery, masteryScore) ==
    IF state # None /\ state[1].satisfied # None
    THEN state[1].satisfied[1]
    ELSE mastery >= masteryScore

ObjectiveProgress(objective, auDescriptor, objectiveStates, opts) ==
    LET masteryScore == OrElse(objective.masteryScore, OrElse(auDescriptor.masteryScore, opts.defaultMasteryScore))
        state     == resolveObjectiveState(objective, objectiveStates, masteryScore)
        mastery   == IF state = None THEN 0 ELSE state[1].mastery
        satisfied == SatisfiedOf(state, mastery, masteryScore)
        attempts  == IF state = None THEN 0 ELSE state[1].attempts
    IN  [id           |-> objective.id,
         nodeId       |-> objective.nodeId,
         kubitId      |-> objective.kubitId,
         mastery      |-> mastery,
         masteryScore |-> masteryScore,
         satisfied    |-> satisfied,
         attempts     |-> attempts,
         source       |-> IF state = None THEN "none" ELSE "cmi5"]

RECURSIVE SumMastery(_)
SumMastery(objectives) ==
    IF objectives = <<>> THEN 0
    ELSE Head(objectives).mastery + SumMastery(Tail(objectives))

\* Mutant: under CompletedAndPassed one of the two facts is enough.
moveOnSatisfied_Either(moveOnCriteria, isComplete, isPassed) ==
    IF moveOnCriteria = "NotApplicable" THEN TRUE
    ELSE IF moveOnCriteria = "Completed" THEN isComplete
    ELSE IF moveOnCriteria = "Passed" THEN isPassed
    ELSE isComplete \/ isPassed

moveOnSatisfied(moveOnCriteria, isComplete, isPassed) ==
    IF moveOnCriteria = "NotApplicable" THEN TRUE
    ELSE IF moveOnCriteria = "Completed" THEN isComplete
    ELSE IF moveOnCriteria = "Passed" THEN isPassed
    ELSE isComplete /\ isPassed

\* Mutant: the completedLessons list is not consulted.
IsCompleteOf_EvaluatorOnly(completedByState, completionResult) ==
    completionResult.isComplete

\* completedByState ? true : completionResult.isComplete
IsCompleteOf(completedByState, completionResult) ==
    IF completedByState THEN TRUE ELSE completionResult.isComplete

\* objectiveTotal > 0 ? masteryAverage >= passThreshold : false
\* Mutant: the average alone decides, whether or not there are objectives.
IsPassedOf_AverageOnly(objectiveTotal, masteryAverage, passThreshold) ==
    AvgGE(masteryAverage, passThreshold)

IsPassedOf(objectiveTotal, masteryAverage, passThreshold) ==
    IF objectiveTotal > 0 THEN AvgGE(masteryAverage, passThreshold) ELSE FALSE

StartedOf(completedByState, currentAU, auId, objectives, signal) ==
    \/ completedByState
    \/ currentAU = Some(auId)
    \/ \E i \in DOMAIN objectives : objectives[i].attempts > 0
    \/ Truthy(SignalContent(signal))
    \/ Truthy(SignalExercises(signal))

\* completionCriteria?.masteryScore ?? auDescriptor.masteryScore ?? defaultMasteryScore
PassThresholdOf(auDescriptor, opts) ==
    OrElse(CriteriaField(auDescriptor.completionCriteria, "masteryScore"),
           OrElse(auDescriptor.masteryScore, opts.defaultMasteryScore))

MasteryAverageOf(objectives) ==
    IF Len(objectives) > 0 THEN Avg(SumMastery(objectives), Len(objectives)) ELSE Avg(0, 1)

FirstPass(auDescriptor, prog, opts) ==
    LET objectives == [i \in DOMAIN auDescriptor.objectives |->
                          ObjectiveProgress(auDescriptor.objectives[i], auDescriptor,
                                            ProgressObjectiveStates(prog), opts)]
        objectiveTotal == Len(objectives)
        objectiveMasteredCount == Cardinality({i \in DOMAIN objectives : objectives[i].satisfied})
        masteryAverage == MasteryAverageOf(objectives)
        completionCriteria == auDescriptor.completionCriteria
        signal == ProgressLessonSignal(prog, auDescriptor.id)
        completionResult == evaluateCompletionCriteria(completionCriteria, masteryAverage,
                                objectiveMasteredCount, objectiveTotal, signal,
                                opts.defaultMasteryScore)
        completedByState == Includes(ProgressCompletedAUs(prog), auDescriptor.id)
        isComplete == IsCompleteOf(completedByState, completionResult)
        passThreshold == PassThresholdOf(auDescriptor, opts)
        isPassed == IsPassedOf(objectiveTotal, masteryAverage, passThreshold)
        started == StartedOf(completedByState, ProgressCurrentAU(prog), auDescriptor.id,
                             objectives, signal)
        moveOnCriteria == OrElse(auDescriptor.moveOn, "NotApplicable")
    IN  [auId          |-> auDescriptor.id,
         order         |-> auDescriptor.order,
         status        |-> "available",
         started       |-> started,
         prerequisites |-> [ids |-> auDescriptor.prerequisites, unmetIds |-> <<>>,
                            missingIds |-> <<>>, met |-> TRUE],
         objectives    |-> [total |-> objectiveTotal, mastered |-> objectiveMasteredCount,
                            masteryAverage |-> masteryAverage, details |-> objectives],
         completion    |-> [isComplete |-> isComplete, criteria |-> completionCriteria,
                            fromState |-> completedByState,
                            requiresContent |-> completionResult.requiresContent,
                            requiresExercises |-> completionResult.requiresExercises],
         pass          |-> [isPassed |-> isPassed, masteryScore |-> passThreshold,
                            averageMastery |-> masteryAverage],
         moveOn        |-> [criteria |-> moveOnCriteria,
                            isSatisfied |-> moveOnSatisfied(moveOnCriteria, isComplete, isPassed)]]

\* Mutant: a unit is evaluated only once all its prerequisites have been (a
\* dependency-ordered single pass), so a unit on a cycle is never evaluated.
RECURSIVE FirstPassLoop_Ordered(_, _, _, _, _)
FirstPassLoop_Ordered(keys, idx, prog, opts, auEvaluations) ==
    IF keys = <<>> THEN auEvaluations
    ELSE IF \A i \in DOMAIN idx.aus.val[Head(keys)].prerequisites :
                MapHas(auEvaluations, idx.aus.val[Head(keys)].prerequisites[i])
         THEN FirstPassLoop_Ordered(Tail(keys), idx, prog, opts,
                  MapSet(auEvaluations, idx.aus.val[Head(keys)].id,
                         FirstPass(idx.aus.val[Head(keys)], prog, opts)))
         ELSE FirstPassLoop_Ordered(Tail(keys), idx, prog, opts, auEvaluations)

\* for (const auDescriptor of this.index.aus.values()) auEvaluations.set(...)
RECURSIVE FirstPassLoop(_, _, _, _, _)
FirstPassLoop(keys, idx, prog, opts, auEvaluations) ==
    IF keys = <<>> THEN auEvaluations
    ELSE FirstPassLoop(Tail(keys), idx, prog, opts,
             MapSet(auEvaluations, idx.aus.val[Head(keys)].id,
                    FirstPass(idx.aus.val[Head(keys)], prog, opts)))

(***************************************************************************)
(* CMI5LearningEngine.evaluate, second pass: prerequisites and status       *)
(***************************************************************************)
\* Mutant: the prerequisite policy is ignored, completion always decides.
PrereqSatisfied_IgnoresPolicy(prereqEvaluation, opts) ==
    prereqEvaluation.completion.isComplete

\* One prerequisite id: is it a unit of the course, and is it satisfied?
\* Mutant: a prerequisite counts as satisfied by the status the second pass has
\* written for it so far.
PrereqSatisfied_ByStatus(prereqEvaluation, opts) ==
    IF opts.prerequisitePolicy = "moveOn"
    THEN prereqEvaluation.moveOn.isSatisfied /\ prereqEvaluation.status # "locked"
    ELSE prereqEvaluation.completion.isComplete /\ prereqEvaluation.status # "locked"

PrereqSatisfied(prereqEvaluation, opts) ==
    IF opts.prerequisitePolicy = "moveOn"
    THEN prereqEvaluation.moveOn.isSatisfied
    ELSE prereqEvaluation.completion.isComplete

\* missingIds.push(prereqId) for an id that has no evaluation
MissingPush(missingIds, prereqId) == Append(missingIds, prereqId)

\* Mutant: a missing prerequisite is never counted as unmet.
MissingUnmet_NeverUnmet(unmetIds, prereqId, opts) == unmetIds

\* if (missingPrerequisiteBehavior === 'lock') unmetIds.push(prereqId)
MissingUnmet(unmetIds, prereqId, opts) ==
    IF opts.missingPrerequisiteBehavior = "lock" THEN Append(unmetIds, prereqId) ELSE unmetIds

\* for (const prereqId of auDescriptor.prerequisites): acc = [unmetIds, missingIds]
RECURSIVE PrereqLoop(_, _, _, _)
PrereqLoop(prereqs, auEvaluations, opts, acc) ==
    IF prereqs = <<>> THEN acc
    ELSE LET prereqId == Head(prereqs)
             prereqEvaluation == MapGet(auEvaluations, prereqId)
         IN  IF prereqEvaluation = None
             THEN PrereqLoop(Tail(prereqs), auEvaluations, opts,
                      [unmetIds   |-> MissingUnmet(acc.unmetIds, prereqId, opts),
                       missingIds |-> MissingPush(acc.missingIds, prereqId)])
             ELSE PrereqLoop(Tail(prereqs), auEvaluations, opts,
                      [unmetIds   |-> IF PrereqSatisfied(prereqEvaluation[1], opts)
                                      THEN acc.unmetIds
                                      ELSE Append(acc.unmetIds, prereqId),
                       missingIds |-> acc.missingIds])

\* Mutant: under CompletedAndPassed either of isComplete and isPassed suffices.
StatusOf_CompletedOrPassed(evaluation, prerequisitesMet) ==
    IF ~prerequisitesMet THEN "locked"
    ELSE IF evaluation.moveOn.criteria = "Passed"
         THEN IF evaluation.pass.isPassed THEN "passed"
              ELSE IF evaluation.started THEN "in-progress" ELSE "available"
    ELSE IF evaluation.moveOn.criteria = "CompletedAndPassed"
         THEN IF evaluation.completion.isComplete \/ evaluation.pass.isPassed THEN "passed"
              ELSE IF evaluation.started THEN "in-progress" ELSE "available"
    ELSE IF evaluation.completion.isComplete THEN "completed"
    ELSE IF evaluation.started THEN "in-progress"
    ELSE "available"

\* let status = 'available'; if (!prerequisitesMet) ... else ...
StatusOf(evaluation, prerequisitesMet) ==
    IF ~prerequisitesMet THEN "locked"
    ELSE IF evaluation.moveOn.criteria = "Passed"
         THEN IF evaluation.pass.isPassed THEN "passed"
              ELSE IF evaluation.started THEN "in-progress" ELSE "available"
    ELSE IF evaluation.moveOn.criteria = "CompletedAndPassed"
         THEN IF evaluation.completion.isComplete /\ evaluation.pass.isPassed THEN "passed"
              ELSE IF evaluation.started THEN "in-progress" ELSE "available"
    ELSE IF evaluation.completion.isComplete THEN "completed"
    ELSE IF evaluation.started THEN "in-progress"
    ELSE "available"

SecondPass(auDescriptor, evaluation, auEvaluations, opts) ==
    LET ids == PrereqLoop(auDescriptor.prerequisites, auEvaluations, opts,
                          [unmetIds |-> <<>>, missingIds |-> <<>>])
        prerequisitesMet == Len(ids.unmetIds) = 0
    IN  [evaluation EXCEPT
            !.status = StatusOf(evaluation, prerequisitesMet),
            !.prerequisites = [ids        |-> auDescriptor.prerequisites,
                               unmetIds   |-> ids.unmetIds,
                               missingIds |-> ids.missingIds,
                               met        |-> prerequisitesMet]]

\* for (const auDescriptor of this.index.aus.values()): the evaluation of each
\* unit is rewritten in place, in the Map the later units read.
RECURSIVE SecondPassLoop(_, _, _, _)
SecondPassLoop(keys, idx, opts, auEvaluations) ==
    IF keys = <<>> THEN auEvaluations
    ELSE LET auDescriptor == idx.aus.val[Head(keys)]
             evaluation   == MapGet(auEvaluations, auDescriptor.id)
         IN  IF evaluation = None
             THEN SecondPassLoop(Tail(keys), idx, opts, auEvaluations)
             ELSE SecondPassLoop(Tail(keys), idx, opts,
                      [auEvaluations EXCEPT !.val[auDescriptor.id] =
                          SecondPass(auDescriptor, evaluation[1], auEvaluations, opts)])

(***************************************************************************)
(* Course status: the statuses sorted by order (Array.sort is stable)      *)
(***************************************************************************)
RECURSIVE InsertByOrder(_, _)
InsertByOrder(sorted, au) ==
    IF sorted = <<>> THEN <<au>>
    ELSE IF Head(sorted).order <= au.order
         THEN <<Head(sorted)>> \o InsertByOrder(Tail(sorted), au)
         ELSE <<au>> \o sorted

RECURSIVE SortByOrder(_, _)
SortByOrder(values, sorted) ==
    IF values = <<>> THEN sorted
    ELSE SortByOrder(Tail(values), InsertByOrder(sorted, Head(values)))

MapValues(m) == [i \in DOMAIN m.keys |-> m.val[m.keys[i]]]

SortedStatuses(auEvaluations) ==
    LET sorted == SortByOrder(MapValues(auEvaluations), <<>>)
    IN  [i \in DOMAIN sorted |-> sorted[i].status]

(***************************************************************************)
(* CMI5LearningEngine.evaluate                                             *)
(***************************************************************************)
\* Mutant: the engine remembers that the course was in progress: once a call
\* has returned in-progress, every later call returns it too.
evaluate_StickyCourse(idx, opts, prog) ==
    LET first  == FirstPassLoop(idx.aus.keys, idx, prog, opts, EmptyMap)
        second == SecondPassLoop(idx.aus.keys, idx, opts, first)
    IN  [aus    |-> second,
         course |-> [id |-> idx.courseId,
                     status |-> IF snapshot # <<>> /\ snapshot[1].course.status = "in-progress"
                                THEN "in-progress"
                                ELSE aggregateStatus(SortedStatuses(second))]]

evaluate(idx, opts, prog) ==
    LET first  == FirstPassLoop(idx.aus.keys, idx, prog, opts, EmptyMap)
        second == SecondPassLoop(idx.aus.keys, idx, opts, first)
    IN  [aus    |-> second,
         course |-> [id |-> idx.courseId, status |-> aggregateStatus(SortedStatuses(second))]]

(***************************************************************************)
(* Courses the engine is constructed with                                  *)
(***************************************************************************)
Objective(id, masteryScore, nodeId, kubitId) ==
    [id |-> id, masteryScore |-> masteryScore, nodeId |-> nodeId, kubitId |-> kubitId]

Criteria(masteryScore, masteryPercentage, minMasteredCount, requireAllContent, requireAllExercises) ==
    [masteryScore |-> masteryScore, masteryPercentage |-> masteryPercentage,
     minMasteredCount |-> minMasteredCount, requireAllContent |-> requireAllContent,
     requireAllExercises |-> requireAllExercises]

\* A unit without its policy: id, order, prerequisites, objectives.
Skeleton(id, order, prerequisites, objectives) ==
    [id |-> id, order |-> order, prerequisites |-> prerequisites, objectives |-> objectives]

Obj1 == Objective("o1", None, None, None)

Obj2 == Objective("o2", Some(50), Some("n2"), None)

\* Prerequisite graphs: a chain, a cycle, a self-prerequisite beside a unit with
\* no prerequisites and no order field, and dangling ids ("X" is no unit).
Shapes ==
    { <<Skeleton("A", Some(1), Some(<<>>), <<Obj1>>),
        Skeleton("B", Some(2), Some(<<"A">>), <<Obj2>>)>>,
      <<Skeleton("A", Some(1), Some(<<"B">>), <<Obj1>>),
        Skeleton("B", Some(2), Some(<<"A">>), <<Obj2>>)>>,
      <<Skeleton("A", None, Some(<<"A">>), <<Obj1>>),
        Skeleton("B", None, None, <<Obj2>>)>>,
      <<Skeleton("A", Some(2), Some(<<"X">>), <<Obj1>>),
        Skeleton("B", Some(1), Some(<<"A", "X">>), <<Obj2>>)>> }

\* The policy of a unit: masteryScore, moveOn, completionCriteria.
Policy(masteryScore, moveOn, completionCriteria) ==
    [masteryScore |-> masteryScore, moveOn |-> moveOn, completionCriteria |-> completionCriteria]

DefaultPolicy == Policy(None, None, None)

\* Policies of the units A and B; every other unit has the default policy.
Profiles ==
    { [A |-> DefaultPolicy,
       B |-> Policy(None, Some("NotApplicable"),
                    Some(Criteria(None, Some(100), None, Some(TRUE), None)))],
      [A |-> Policy(None, Some("Completed"), Some(Criteria(Some(50), None, None, None, None))),
       B |-> Policy(Some(90), Some("Passed"), None)],
      [A |-> Policy(None, Some("Passed"), Some(Criteria(None, None, None, Some(TRUE), None))),
       B |-> Policy(None, Some("CompletedAndPassed"), None)],
      [A |-> Policy(None, Some("CompletedAndPassed"), None),
       B |-> Policy(None, Some("Completed"),
                    Some(Criteria(None, None, Some(1), None, Some(TRUE))))] }

Unit(skeleton, policy) ==
    [id                 |-> skeleton.id,
     order              |-> skeleton.order,
     prerequisites      |-> skeleton.prerequisites,
     objectives         |-> skeleton.objectives,
     masteryScore       |-> policy.masteryScore,
     moveOn             |-> policy.moveOn,
     completionCriteria |-> policy.completionCriteria]

CourseOf(shape, profile) ==
    [id |-> "course-1",
     assignableUnits |->
        [i \in DOMAIN shape |->
            Unit(shape[i], IF shape[i].id \in DOMAIN profile
                           THEN profile[shape[i].id] ELSE DefaultPolicy)]]

Courses == {CourseOf(shape, profile) : shape \in Shapes, profile \in Profiles}

\* new CMI5LearningEngine(course, options): the options with their defaults
EngineOptions(defaultMasteryScore, prerequisitePolicy, missingPrerequisiteBehavior) ==
    [defaultMasteryScore         |-> OrElse(defaultMasteryScore, DEFAULT_MASTERY_SCORE),
     prerequisitePolicy          |-> OrElse(prerequisitePolicy, "completion"),
     missingPrerequisiteBehavior |-> OrElse(missingPrerequisiteBehavior, "ignore")]

OptionsInputs ==
    {EngineOptions(None, p, m) : p \in {None, Some("moveOn")}, m \in {None, Some("lock")}}

(***************************************************************************)
(* The progress value of the caller                                        *)
(***************************************************************************)
\* evaluate(progress = {})
EmptyProgress == [cmi5State |-> None, lessonSignals |-> None]

EmptyCMI5State ==
    [objectiveStates |-> <<>>,
     progress        |-> [completedLessons |-> <<>>, currentLesson |-> None]]

CMI5StateOf(prog) == OrElse(prog.cmi5State, EmptyCMI5State)

\* mastery, satisfied (may be absent), attempts of a CMI5ObjectiveState
ObjectiveRecords ==
    { [mastery |-> 90, satisfied |-> Some(TRUE),  attempts |-> 1],
      [mastery |-> 90, satisfied |-> Some(FALSE), attempts |-> 0],
      [mastery |-> 50, satisfied |-> None,        attempts |-> 1] }

LessonSignals ==
    { [contentCompleted |-> Some(TRUE), exercisesCompleted |-> Some(TRUE)] }

\* The ids of the objectives of the course: the keys records are stored under.
ObjectiveKeys(idx) ==
    UNION {{idx.aus.val[k].objectives[i].id : i \in DOMAIN idx.aus.val[k].objectives} :
           k \in DOMAIN idx.aus.val}

UnitIds(idx) == DOMAIN idx.aus.val

WithObjectiveState(prog, key, rec) ==
    [prog EXCEPT !.cmi5State =
        Some([CMI5StateOf(prog) EXCEPT !.objectiveStates = (key :> rec) @@ @])]

WithCompletedLesson(prog, id) ==
    [prog EXCEPT !.cmi5State =
        Some([CMI5StateOf(prog) EXCEPT !.progress.completedLessons = Append(@, id)])]

WithCurrentLesson(prog, id) ==
    [prog EXCEPT !.cmi5State =
        Some([CMI5StateOf(prog) EXCEPT !.progress.currentLesson = Some(id)])]

WithLessonSignal(prog, id, signal) ==
    [prog EXCEPT !.lessonSignals = Some((id :> signal) @@ OrElse(@, <<>>))]

(***************************************************************************)
(* The engine as a state machine                                           *)
(***************************************************************************)
NoSnapshot == None

Init ==
    /\ \E course \in Courses : index = buildCourseIndex(course)
    /\ options \in OptionsInputs
    /\ progress = EmptyProgress
    /\ snapshot = NoSnapshot
    /\ memo = None
    /\ ServicesIdle

\* A call a caller has kept (memo), seen again when a later call is made: was a
\* call with another progress made since?
Observed(kept, prog) ==
    IF kept = None THEN kept
    ELSE Some([kept[1] EXCEPT !.between = @ \/ prog # kept[1].progress])

\* engine.evaluate(prog)
EvaluateWith(prog) ==
    /\ progress' = prog
    /\ snapshot' = Some(evaluate(index, options, prog))
    /\ memo' = Observed(memo, prog)
    /\ UNCHANGED <<index, options, nonEngineVars>>

\* evaluate on the progress as it is
Evaluate == EvaluateWith(progress)

\* an objective record is stored, then evaluate
RecordObjective ==
    \E key \in ObjectiveKeys(index), rec \in ObjectiveRecords :
        EvaluateWith(WithObjectiveState(progress, key, rec))

\* a unit is added to completedLessons, then evaluate
CompleteLesson ==
    \E id \in UnitIds(index) :
        /\ ~Includes(ProgressCompletedAUs(progress), id)
        /\ EvaluateWith(WithCompletedLesson(progress, id))

\* currentLesson is set, then evaluate
EnterLesson ==
    \E id \in UnitIds(index) : EvaluateWith(WithCurrentLesson(progress, id))

\* the content layer reports a lesson signal, then evaluate
SignalLesson ==
    \E id \in UnitIds(index), signal \in LessonSignals :
        EvaluateWith(WithLessonSignal(progress, id, signal))

Next ==
    \/ Evaluate
    \/ RecordObjective
    \/ CompleteLesson
    \/ EnterLesson
    \/ SignalLesson

Spec == Init /\ [][Next]_vars

(***************************************************************************)
(* Properties of the snapshot                                              *)
(***************************************************************************)
Evaluated == snapshot # NoSnapshot

\* The evaluation of unit id in the snapshot
Eval(id) == snapshot[1].aus.val[id]

EvaluatedIds == IF Evaluated THEN DOMAIN snapshot[1].aus.val ELSE {}

PrereqsOf(id) == Range(index.aus.val[id].prerequisites)

\* Prerequisite p is unmet under the configured policy and missing behaviour.
Unmet(p) ==
    IF p \notin UnitIds(index) THEN options.missingPrerequisiteBehavior = "lock"
    ELSE IF options.prerequisitePolicy = "moveOn" THEN ~Eval(p).moveOn.isSatisfied
    ELSE ~Eval(p).completion.isComplete

\* The move-on criteria configured for unit id (none configured: NotApplicable)
ConfiguredMoveOn(id) == OrElse(index.aus.val[id].moveOn, "NotApplicable")

\* C1: in every snapshot, a unit is locked iff at least one of its prerequisites
\* is unmet under the configured policy and missing-prerequisite behaviour, which
\* is iff prerequisites.unmetIds is non-empty and prerequisites.met is false.
C1_LockedIffUnmet ==
    \A id \in EvaluatedIds :
        /\ (Eval(id).status = "locked") <=> (\E p \in PrereqsOf(id) : Unmet(p))
        /\ (Eval(id).status = "locked") <=>
               (Eval(id).prerequisites.unmetIds # <<>> /\ ~Eval(id).prerequisites.met)
        /\ Eval(id).prerequisites.met <=> (Eval(id).prerequisites.unmetIds = <<>>)

\* A unit locked by an unmet prerequisite beside a unit that has a prerequisite
\* and is not locked.
C1_Witness ==
    \E a, b \in EvaluatedIds :
        /\ Eval(a).status = "locked" /\ Eval(a).prerequisites.unmetIds # <<>>
        /\ Eval(b).status # "locked" /\ Eval(b).prerequisites.ids # <<>>

\* C2: a unit listed in completedLessons is complete whatever the completion
\* evaluator computes, and it is still locked whenever one of its own
\* prerequisites is unmet.
C2_CompletedOverride ==
    \A id \in EvaluatedIds :
        Includes(ProgressCompletedAUs(progress), id) =>
            /\ Eval(id).completion.isComplete
            /\ Eval(id).completion.fromState
            /\ (\E p \in PrereqsOf(id) : Unmet(p)) => Eval(id).status = "locked"

\* A unit in completedLessons with no objective mastered (the evaluator alone
\* would say incomplete) that is complete and locked.
C2_Witness ==
    \E id \in EvaluatedIds :
        /\ Includes(ProgressCompletedAUs(progress), id)
        /\ Eval(id).objectives.total > 0
        /\ Eval(id).objectives.mastered = 0
        /\ Eval(id).completion.criteria = None
        /\ Eval(id).completion.isComplete
        /\ Eval(id).status = "locked"

\* C3: a prerequisite id that is no unit of the course locks the unit under
\* missingPrerequisiteBehavior = lock, whatever the progress; under ignore it is
\* listed in missingIds, is not in unmetIds and does not lock the unit.
C3_MissingPrerequisite ==
    \A id \in EvaluatedIds : \A p \in PrereqsOf(id) :
        p \notin UnitIds(index) =>
            /\ Includes(Eval(id).prerequisites.missingIds, p)
            /\ options.missingPrerequisiteBehavior = "lock" =>
                   /\ Eval(id).status = "locked"
                   /\ Includes(Eval(id).prerequisites.unmetIds, p)
            /\ options.missingPrerequisiteBehavior = "ignore" =>
                   /\ ~Includes(Eval(id).prerequisites.unmetIds, p)
                   /\ Eval(id).status = "locked" =>
                          \E q \in PrereqsOf(id) : q \in UnitIds(index) /\ Unmet(q)

\* Under lock, a unit with a dangling prerequisite that is mastered, listed as
\* completed and the current unit, and locked all the same.
C3_Witness ==
    \E id \in EvaluatedIds :
        /\ options.missingPrerequisiteBehavior = "lock"
        /\ \E p \in PrereqsOf(id) : p \notin UnitIds(index)
        /\ Eval(id).objectives.mastered = Eval(id).objectives.total
        /\ Eval(id).objectives.total > 0
        /\ Includes(ProgressCompletedAUs(progress), id)
        /\ ProgressCurrentAU(progress) = Some(id)
        /\ Eval(id).status = "locked"

\* The status of a unit whose prerequisites are met, by its move-on criteria.
ExpectedStatus(moveOn, isComplete, isPassed, started) ==
    CASE moveOn = "Passed" ->
            IF isPassed THEN "passed" ELSE IF started THEN "in-progress" ELSE "available"
      [] moveOn = "CompletedAndPassed" ->
            IF isComplete /\ isPassed THEN "passed"
            ELSE IF started THEN "in-progress" ELSE "available"
      [] moveOn \in {"Completed", "NotApplicable"} ->
            IF isComplete THEN "completed"
            ELSE IF started THEN "in-progress" ELSE "available"

\* C4: when the prerequisites of a unit are met its status follows its move-on
\* criteria: Passed: passed if isPassed; CompletedAndPassed: passed if isComplete
\* and isPassed; Completed, NotApplicable or none: completed if isComplete; else
\* in-progress if started, else available.  So passed occurs only under Passed
\* or CompletedAndPassed and completed only under Completed or NotApplicable.
C4_StatusByMoveOn ==
    \A id \in EvaluatedIds :
        /\ Eval(id).prerequisites.met =>
               Eval(id).status = ExpectedStatus(ConfiguredMoveOn(id),
                                     Eval(id).completion.isComplete,
                                     Eval(id).pass.isPassed, Eval(id).started)
        /\ Eval(id).status = "passed" =>
               \/ ConfiguredMoveOn(id) = "Passed" /\ Eval(id).pass.isPassed
               \/ /\ ConfiguredMoveOn(id) = "CompletedAndPassed"
                  /\ Eval(id).completion.isComplete /\ Eval(id).pass.isPassed
        /\ Eval(id).status = "completed" =>
               ConfiguredMoveOn(id) \in {"Completed", "NotApplicable"}

\* A started unit under CompletedAndPassed that is passed but not complete, and
\* so in-progress; and a unit under Passed that is passed though not complete.
C4_Witness ==
    \E id \in EvaluatedIds :
        /\ ConfiguredMoveOn(id) = "CompletedAndPassed"
        /\ Eval(id).prerequisites.met
        /\ Eval(id).pass.isPassed /\ ~Eval(id).completion.isComplete
        /\ Eval(id).started
        /\ Eval(id).status = "in-progress"

\* The statuses of the units of the snapshot, as a set
UnitStatuses == {Eval(id).status : id \in EvaluatedIds}

Finished == {"completed", "passed"}

NotStarted == {"locked", "available"}

\* The cascade of the course status over the unit statuses, first match wins.
Cascade(statuses) ==
    IF statuses \subseteq {"locked"} THEN "locked"
    ELSE IF statuses \subseteq {"passed"} THEN "passed"
    ELSE IF statuses \subseteq Finished THEN "completed"
    ELSE IF "in-progress" \in statuses
            \/ (statuses \cap Finished # {} /\ statuses \cap NotStarted # {})
         THEN "in-progress"
    ELSE IF "available" \in statuses THEN "available"
    ELSE "locked"

\* C6: the course status is the cascade over the unit statuses: all locked ->
\* locked; all passed -> passed; all finished -> completed; any in-progress, or
\* a finished unit beside a locked or available one -> in-progress; any
\* available -> available; otherwise locked.
C6_CourseStatusCascade ==
    Evaluated => snapshot[1].course.status = Cascade(UnitStatuses)

\* A course with a finished unit and an available unit, and no unit in progress:
\* in-progress, not available.
C6_Witness ==
    /\ Evaluated
    /\ UnitStatuses \cap Finished # {}
    /\ "available" \in UnitStatuses
    /\ "in-progress" \notin UnitStatuses
    /\ snapshot[1].course.status = "in-progress"

\* C8: evaluate is total: for every course, also with prerequisite cycles,
\* self-prerequisites and dangling ids, the snapshot holds exactly one
\* evaluation, with one of the five statuses, for every unit id of the course.
C8_Total ==
    Evaluated =>
        /\ DOMAIN snapshot[1].aus.val = UnitIds(index)
        /\ Range(snapshot[1].aus.keys) = UnitIds(index)
        /\ Len(snapshot[1].aus.keys) = Cardinality(UnitIds(index))
        /\ \A id \in UnitIds(index) :
               Eval(id).auId = id /\ Eval(id).status \in LessonStatus
        /\ snapshot[1].course.status \in LessonStatus

\* A snapshot of a course whose units are each other's prerequisites, and one of
\* a course with a self-prerequisite or a dangling prerequisite id.
C8_Witness ==
    /\ Evaluated
    /\ \E a, b \in UnitIds(index) :
           a # b /\ b \in PrereqsOf(a) /\ a \in PrereqsOf(b)
    /\ \A id \in UnitIds(index) : Eval(id).status = "locked"

(***************************************************************************)
(* Unlock on completion: a unit behind one prerequisite, default options   *)
(***************************************************************************)
Obj3 == Objective("o3", None, None, None)

\* A has no prerequisites and no completion criteria; B has prerequisites [A].
UnlockCourse ==
    [id |-> "course-1",
     assignableUnits |->
        << Unit(Skeleton("A", Some(1), None, <<Obj1, Obj2>>), DefaultPolicy),
           Unit(Skeleton("B", Some(2), Some(<<"A">>), <<Obj3>>), DefaultPolicy) >>]

\* new CMI5LearningEngine(course): no options given
InitUnlock ==
    /\ index = buildCourseIndex(UnlockCourse)
    /\ options = EngineOptions(None, None, None)
    /\ progress = EmptyProgress
    /\ snapshot = NoSnapshot
    /\ memo = None
    /\ ServicesIdle

SpecUnlock == InitUnlock /\ [][Next]_vars

\* The facts of the objectives of unit id in the snapshot
Details(id) == Eval(id).objectives.details

\* The progress records mastery >= its mastery score for every objective of id.
MasteryReached(id) ==
    \A i \in DOMAIN Details(id) : Details(id)[i].mastery >= Details(id)[i].masteryScore

\* Every objective of id is satisfied: by the stored flag of its record, or by
\* mastery >= its mastery score when the record stores no flag.
StoredSatisfied(objective, masteryScore) ==
    LET state == resolveObjectiveState(objective, ProgressObjectiveStates(progress), masteryScore)
    IN  IF state = None THEN 0 >= masteryScore
        ELSE IF state[1].satisfied # None THEN state[1].satisfied[1]
        ELSE state[1].mastery >= masteryScore

AllSatisfied(id) ==
    \A i \in DOMAIN Details(id) :
        StoredSatisfied(index.aus.val[id].objectives[i], Details(id)[i].masteryScore)

\* C5 as stated: B is locked while A is not complete, and once the progress
\* records mastery >= the threshold for every objective of A, the next
\* evaluation has A complete and B no longer locked.
C5_MasteryUnlocks ==
    [][Evaluated' =>
          /\ ~Eval("A")'.completion.isComplete => Eval("B")'.status = "locked"
          /\ MasteryReached("A")' =>
                 Eval("A")'.completion.isComplete /\ Eval("B")'.status # "locked"]_vars

\* C5, amended: B is locked exactly while A is not complete; A is complete
\* exactly when it is listed in completedLessons or every objective of A is
\* satisfied (the stored satisfied flag of the record, mastery >= the mastery
\* score only when no flag is stored); and an evaluation in which A is complete
\* takes a locked B to available, or to in-progress or completed if B itself
\* has been started or completed.
C5_SatisfiedUnlocks ==
    [][Evaluated' =>
          /\ ~Eval("A")'.completion.isComplete <=> Eval("B")'.status = "locked"
          /\ Eval("A")'.completion.isComplete <=>
                 \/ Includes(ProgressCompletedAUs(progress'), "A")
                 \/ AllSatisfied("A")'
          /\ (Evaluated /\ Eval("B").status = "locked" /\ AllSatisfied("A")') =>
                 Eval("B")'.status =
                     IF Eval("B")'.completion.isComplete THEN "completed"
                     ELSE IF Eval("B")'.started THEN "in-progress" ELSE "available"]_vars

\* A is complete by its objectives alone and B, untouched, is available.
C5_Witness ==
    /\ Evaluated
    /\ index = buildCourseIndex(UnlockCourse)
    /\ ProgressCompletedAUs(progress) = <<>>
    /\ AllSatisfied("A")
    /\ Eval("A").completion.isComplete
    /\ Eval("B").status = "available"

(***************************************************************************)
(* The three-unit chain of engine.e2e.test.ts                              *)
(***************************************************************************)
ChainObjective(id, nodeId) == Objective(id, Some(80), Some(nodeId), None)

ChainCourse ==
    [id |-> "course-1",
     assignableUnits |->
        << Unit(Skeleton("au-1", Some(1), None,
                         <<ChainObjective("obj-1", "node-1"), ChainObjective("obj-2", "node-2")>>),
                Policy(None, Some("CompletedAndPassed"),
                       Some(Criteria(None, Some(100), None, None, None)))),
           Unit(Skeleton("au-2", Some(2), Some(<<"au-1">>),
                         <<ChainObjective("obj-3", "node-3")>>),
                Policy(None, Some("Completed"),
                       Some(Criteria(None, Some(100), None, Some(TRUE), None)))),
           Unit(Skeleton("au-3", Some(3), Some(<<"au-2">>),
                         <<ChainObjective("obj-4", "node-4")>>),
                Policy(None, Some("Completed"), None)) >>]

\* createObjectiveState(objectiveId, nodeId, mastery) of the test
createObjectiveState(mastery) ==
    [mastery   |-> mastery,
     satisfied |-> Some(mastery >= 80),
     attempts  |-> IF mastery > 0 THEN 1 ELSE 0]

TestMasteries == {90, 50}

InitChain ==
    /\ index = buildCourseIndex(ChainCourse)
    /\ options = EngineOptions(None, None, None)
    /\ progress = EmptyProgress
    /\ snapshot = NoSnapshot
    /\ memo = None
    /\ ServicesIdle

\* objectiveStates.set(id, createObjectiveState(id, nodeId, mastery)), then evaluate
RecordTestObjective ==
    \E key \in ObjectiveKeys(index), mastery \in TestMasteries :
        EvaluateWith(WithObjectiveState(progress, key, createObjectiveState(mastery)))

NextChain ==
    \/ Evaluate
    \/ RecordTestObjective
    \/ CompleteLesson
    \/ SignalLesson

SpecChain == InitChain /\ [][NextChain]_vars

\* The record stored for an objective id, if any
StoredRecord(objectiveId) ==
    IF ProgressObjectiveStates(progress) = None THEN None
    ELSE IF objectiveId \in DOMAIN ProgressObjectiveStates(progress)[1]
         THEN Some(ProgressObjectiveStates(progress)[1][objectiveId])
    ELSE None

\* The progress holds nothing about unit id: no record for its objectives, not
\* in completedLessons, not the current lesson, no lesson signal.
Untouched(id) ==
    /\ \A i \in DOMAIN index.aus.val[id].objectives :
           StoredRecord(index.aus.val[id].objectives[i].id) = None
    /\ ~Includes(ProgressCompletedAUs(progress), id)
    /\ ProgressCurrentAU(progress) # Some(id)
    /\ ProgressLessonSignal(progress, id) = None

\* Both objectives of au-1 have mastery 0.9 with satisfied = true.
ChainAMastered ==
    \A key \in {"obj-1", "obj-2"} :
        /\ StoredRecord(key) # None
        /\ StoredRecord(key)[1].mastery = 90
        /\ StoredRecord(key)[1].satisfied = Some(TRUE)

\* C9: in the three-unit chain, with empty progress A is available, B and C are
\* locked and the course is available; once both objectives of A have mastery
\* 0.9 with satisfied = true (and nothing else is recorded), A is complete and
\* passed with status passed, the prerequisites of B are met and B is
\* available, and the course is in-progress.
C9_ThreeUnitChain ==
    Evaluated =>
        /\ (\A id \in UnitIds(index) : Untouched(id)) =>
               /\ Eval("au-1").status = "available"
               /\ Eval("au-2").status = "locked"
               /\ Eval("au-3").status = "locked"
               /\ snapshot[1].course.status = "available"
        /\ ChainAMastered =>
               /\ Eval("au-1").completion.isComplete
               /\ Eval("au-1").pass.isPassed
               /\ Eval("au-1").status = "passed"
               /\ Eval("au-2").prerequisites.met
               /\ Eval("au-2").status # "locked"
        /\ (ChainAMastered /\ Untouched("au-2") /\ Untouched("au-3")) =>
               /\ Eval("au-2").status = "available"
               /\ Eval("au-3").status = "locked"
               /\ snapshot[1].course.status = "in-progress"

\* The second evaluation of the scenario: only the two objectives of A recorded.
C9_Witness ==
    /\ Evaluated
    /\ index = buildCourseIndex(ChainCourse)
    /\ ChainAMastered /\ Untouched("au-2") /\ Untouched("au-3")
    /\ ProgressCompletedAUs(progress) = <<>>
    /\ Eval("au-1").status = "passed"
    /\ Eval("au-2").status = "available"
    /\ snapshot[1].course.status = "in-progress"

(***************************************************************************)
(* Two calls on one engine: a caller keeps the arguments and the result of *)
(* a call and compares them with a later call                              *)
(***************************************************************************)
DetProfile ==
    [A |-> Policy(None, Some("Completed"), Some(Criteria(Some(50), None, None, None, None))),
     B |-> Policy(Some(90), Some("Passed"), None)]

DetCourses == {CourseOf(shape, DetProfile) : shape \in Shapes}

DetOptions == {EngineOptions(None, None, None), EngineOptions(None, Some("moveOn"), Some("lock"))}

InitDet ==
    /\ \E course \in DetCourses : index = buildCourseIndex(course)
    /\ options \in DetOptions
    /\ progress = EmptyProgress
    /\ snapshot = NoSnapshot
    /\ memo = None
    /\ ServicesIdle

\* const kept = engine.evaluate(progress): the caller keeps the engine's fields,
\* the argument and the snapshot of the call just made.
KeepCall ==
    /\ Evaluated
    /\ memo = None
    /\ memo' = Some([index |-> index, options |-> options, progress |-> progress,
                     snapshot |-> snapshot[1], between |-> FALSE])
    /\ UNCHANGED <<index, options, progress, snapshot, nonEngineVars>>

NextDet ==
    \/ Evaluate
    \/ RecordObjective
    \/ EnterLesson
    \/ KeepCall

SpecDet == InitDet /\ [][NextDet]_vars

MaxReviews == 5

\* Stability is counted in units of 1/StabilityUnit days, difficulty in tenths:
\* with these the products by 0.5 and 1.5 and the steps of 0.1, 0.2 and 0.5
\* of applyFSRS are exact for MaxReviews reviews of a new item.
StabilityUnit == 10 * 2^MaxReviews

\* 0.1 days
MinStability == StabilityUnit \div 10

Max(a, b) == IF a >= b THEN a ELSE b

Min(a, b) == IF a <= b THEN a ELSE b

\* Math.round of a stability: floor(x + 0.5), in days
Round(stability) == (2 * stability + StabilityUnit) \div (2 * StabilityUnit)

Ratings == {"again", "hard", "good", "easy"}

\* Mutant: the rating names are numbered in the reverse order.
RatingValue_Reversed(rating) ==
    IF rating = "again" THEN 4 ELSE IF rating = "hard" THEN 3
    ELSE IF rating = "good" THEN 2 ELSE 1

\* review.rating === 'again' ? 1 : 'hard' ? 2 : 'good' ? 3 : 4
RatingValue(rating) ==
    IF rating = "again" THEN 1 ELSE IF rating = "hard" THEN 2
    ELSE IF rating = "good" THEN 3 ELSE 4

\* createEmptyCard() of ts-fsrs as an FSRSState
createInitialFSRSState ==
    [stability |-> 0, difficulty |-> 0, elapsedDays |-> 0, scheduledDays |-> 0,
     reps |-> 0, lapses |-> 0, state |-> "new"]

\* Mutant: a forgotten review counts as a repetition too.
ApplyAgain_CountsRep(fsrsState) ==
    [fsrsState EXCEPT !.lapses     = @ + 1,
                      !.reps       = @ + 1,
                      !.difficulty = Min(100, @ + 5),
                      !.stability  = Max(MinStability, @ \div 2),
                      !.state      = "relearning"]

\* The rating === 1 branch
ApplyAgain(fsrsState) ==
    [fsrsState EXCEPT !.lapses     = @ + 1,
                      !.difficulty = Min(100, @ + 5),
                      !.stability  = Max(MinStability, @ \div 2),
                      !.state      = "relearning"]

\* Mutant: a relearning item graduates to review like a learning one.
ApplyRecalled_Graduates(fsrsState, rating) ==
    LET stability == Max(MinStability, (fsrsState.stability * (2 + (rating - 2))) \div 2)
    IN  [fsrsState EXCEPT !.reps       = @ + 1,
                          !.stability  = stability,
                          !.difficulty = Max(10, Min(100, @ - (rating - 2))),
                          !.state      = IF stability < StabilityUnit THEN "learning"
                                         ELSE IF @ \in {"new", "learning", "relearning"}
                                              THEN "review"
                                         ELSE @]

\* Mutant: stabilityMultiplier = 1 + (rating - 3) * 0.5 and the difficulty step
\* 0.1 * (rating - 3): hard 0.5, good 1.0, easy 1.5.
ApplyRecalled_GoodNeutral(fsrsState, rating) ==
    LET stability == Max(MinStability, (fsrsState.stability * (2 + (rating - 3))) \div 2)
    IN  [fsrsState EXCEPT !.reps       = @ + 1,
                          !.stability  = stability,
                          !.difficulty = Max(10, Min(100, @ - (rating - 3))),
                          !.state      = IF stability < StabilityUnit THEN "learning"
                                         ELSE IF @ \in {"new", "learning"} THEN "review"
                                         ELSE @]

\* The hard, good or easy branch; stabilityMultiplier = 1 + (rating - 2) * 0.5
ApplyRecalled(fsrsState, rating) ==
    LET stability == Max(MinStability, (fsrsState.stability * (2 + (rating - 2))) \div 2)
    IN  [fsrsState EXCEPT !.reps       = @ + 1,
                          !.stability  = stability,
                          !.difficulty = Max(10, Min(100, @ - (rating - 2))),
                          !.state      = IF stability < StabilityUnit THEN "learning"
                                         ELSE IF @ \in {"new", "learning"} THEN "review"
                                         ELSE @]

applyFSRS(fsrsState, rating) ==
    LET elapsed == [fsrsState EXCEPT !.elapsedDays =
                        IF fsrsState.reps > 0 THEN fsrsState.scheduledDays ELSE 0]
        newFsrs == IF RatingValue(rating) = 1 THEN ApplyAgain(elapsed)
                   ELSE ApplyRecalled(elapsed, RatingValue(rating))
    IN  [newFsrs EXCEPT !.scheduledDays = Max(1, Round(newFsrs.stability))]

(***************************************************************************)
(* calculateMastery: mastery in thousandths, time in units of              *)
(* 1/StabilityUnit days.  Math.exp(-(d/s) * Math.log(10/9)) is 0.9^(d/s):  *)
(* the model takes the integer powers of 0.9 (rounded down to thousandths) *)
(* and interpolates linearly between two of them.                          *)
(***************************************************************************)
MasteryUnit == 1000

\* 0.9^k in thousandths
RECURSIVE PowNine(_)
PowNine(k) == IF k = 0 THEN MasteryUnit ELSE (PowNine(k - 1) * 9) \div 10

\* 0.9^(days / stability), stability > 0
Retention(days, stability) ==
    LET k   == days \div stability
        rem == days % stability
    IN  PowNine(k) - ((PowNine(k) - PowNine(k + 1)) * rem) \div stability

\* Math.min(activitiesUsed * 0.02, 0.1)
ActivityBonus(activitiesUsed) == Min(activitiesUsed * 20, 100)

\* overdueRatio > 1 ? Math.min((overdueRatio - 1) * 0.1, 0.2) : 0, with
\* overdueRatio = scheduledDays > 0 ? daysSinceReview / scheduledDays : 0
RecencyPenalty(days, scheduledDays) ==
    IF scheduledDays > 0 /\ days > scheduledDays * StabilityUnit
    THEN Min(((days - scheduledDays * StabilityUnit) * 100) \div (scheduledDays * StabilityUnit), 200)
    ELSE 0

\* Mutant: the sum is returned as it is, without Math.max(0, Math.min(1, .)).
calculateMastery_Unclamped(daysSinceReview, state, activitiesUsed) ==
    (IF state.stability > 0 THEN Retention(daysSinceReview, state.stability) ELSE 0)
        + ActivityBonus(activitiesUsed) - RecencyPenalty(daysSinceReview, state.scheduledDays)

calculateMastery(daysSinceReview, state, activitiesUsed) ==
    LET retention == IF state.stability > 0 THEN Retention(daysSinceReview, state.stability) ELSE 0
    IN  Max(0, Min(MasteryUnit, retention + ActivityBonus(activitiesUsed)
                                   - RecencyPenalty(daysSinceReview, state.scheduledDays)))

(***************************************************************************)
(* FSRSService: construction, recordReview, detectMilestone                *)
(***************************************************************************)
ValidActorJson == "{\"name\":\"Ann\",\"mbox\":\"mailto:ann@example.com\"}"

\* launchParams.actor: a JSON text, or a text that is no JSON
ActorStrings == {ValidActorJson, "Ann <ann@example.com>"}

\* An actor text whose object carries a registration member
RegisteredActorJson ==
    "{\"name\":\"Ann\",\"mbox\":\"mailto:ann@example.com\",\"registration\":\"reg-1\"}"

\* JSON.parse(text): the value, or None where it throws a SyntaxError
JSONParse(text) ==
    IF text = ValidActorJson
    THEN Some([name |-> "Ann", mbox |-> "mailto:ann@example.com"])
    ELSE IF text = RegisteredActorJson
    THEN Some([name |-> "Ann", mbox |-> "mailto:ann@example.com", registration |-> "reg-1"])
    ELSE None

DefaultAgent ==
    [objectType |-> "Agent", name |-> "Local User", mbox |-> "mailto:local@cmi5.tools"]

\* parseActorFromCMI5(actorJson): the actor, or None where it throws
parseActorFromCMI5(actorJson) ==
    IF JSONParse(actorJson) = None THEN None
    ELSE Some([objectType |-> "Agent", name |-> JSONParse(actorJson)[1].name,
               mbox |-> JSONParse(actorJson)[1].mbox])

\* new FSRSService(options): the fields, None if the constructor throws
FSRSServiceOf(actor, masteryThreshold, periodicMilestoneInterval) ==
    Some([actor |-> actor,
          agent |-> IF JSONParse(actor) # None THEN JSONParse(actor)[1] ELSE DefaultAgent,
          masteryThreshold |-> OrElse(masteryThreshold, 800),
          periodicMilestoneInterval |-> OrElse(periodicMilestoneInterval, 10)])

\* Mutant: the periodic test comes first.
detectMilestone_PeriodicFirst(isFirstReview, previousMastery, newMastery, previousState, newState, reviewCount, svc) ==
    IF reviewCount % svc.periodicMilestoneInterval = 0 THEN Some("periodic")
    ELSE IF isFirstReview THEN Some("first-review")
    ELSE IF \/ previousMastery < svc.masteryThreshold /\ newMastery >= svc.masteryThreshold
            \/ previousMastery < MasteryUnit /\ newMastery >= MasteryUnit
         THEN Some("mastery-threshold")
    ELSE IF previousState # newState /\ newState \in {"review", "learning"}
         THEN Some("state-transition")
    ELSE None

detectMilestone(isFirstReview, previousMastery, newMastery, previousState, newState, reviewCount, svc) ==
    IF isFirstReview THEN Some("first-review")
    ELSE IF \/ previousMastery < svc.masteryThreshold /\ newMastery >= svc.masteryThreshold
            \/ previousMastery < MasteryUnit /\ newMastery >= MasteryUnit
         THEN Some("mastery-threshold")
    ELSE IF previousState # newState /\ newState \in {"review", "learning"}
         THEN Some("state-transition")
    ELSE IF reviewCount % svc.periodicMilestoneInterval = 0 THEN Some("periodic")
    ELSE None

\* The engine while the scheduler runs: constructed, no call made
EngineIdle ==
    /\ index = buildCourseIndex(ChainCourse)
    /\ options = EngineOptions(None, None, None)
    /\ progress = EmptyProgress
    /\ snapshot = NoSnapshot
    /\ memo = None

\* Options the service is constructed with: the launch actor, and the
\* milestone interval left at its default of 10 or set to 2
ServiceInputs ==
    {FSRSServiceOf(actor, None, interval) : actor \in ActorStrings, interval \in {None, Some(2)}}

InitFSRS ==
    /\ EngineIdle
    /\ ToolsIdle
    /\ service \in ServiceInputs
    /\ stored = None
    /\ statements = <<>>

\* Time that passes in recordReview between new Date() and the Date.now() of
\* calculateMastery: none, or some
ReviewLags == {0, 1}

\* recordReview(review): existing state or createInitialFSRSState, applyFSRS,
\* calculateMastery, detectMilestone, saveFSRSState, and for a milestone
\* generateReviewStatement (which throws on an actor that is no JSON) and
\* storeStatement.
RecordReviewWith(existing, rating, lag) ==
    LET fsrsState       == IF existing # None THEN existing[1].fsrs ELSE createInitialFSRSState
        previousMastery == IF existing # None THEN existing[1].mastery ELSE 0
        previousState   == IF existing # None THEN existing[1].fsrs.state ELSE "new"
        reviewCount     == IF existing # None THEN existing[1].reviewCount ELSE 0
        updatedFsrsState == applyFSRS(fsrsState, rating)
        newMastery      == calculateMastery(lag, updatedFsrsState, 0)
        newReviewCount  == reviewCount + 1
        milestoneType   == detectMilestone(reviewCount = 0, previousMastery, newMastery,
                               previousState, updatedFsrsState.state, newReviewCount, service[1])
    IN  /\ stored' = Some([fsrs |-> updatedFsrsState, mastery |-> newMastery,
                           reviewCount |-> newReviewCount, agent |-> service[1].agent])
        /\ statements' =
               IF milestoneType # None /\ parseActorFromCMI5(service[1].actor) # None
               THEN Append(statements, milestoneType[1])
               ELSE statements
        /\ UNCHANGED <<nonFsrsVars, service>>

\* recordReview of an item with no stored state
RecordFirstReview ==
    /\ service # None
    /\ stored = None
    /\ \E rating \in Ratings, lag \in ReviewLags : RecordReviewWith(stored, rating, lag)

\* recordReview of an item with a stored state
RecordReview ==
    /\ service # None
    /\ stored # None
    /\ stored[1].reviewCount < MaxReviews
    /\ \E rating \in Ratings, lag \in ReviewLags : RecordReviewWith(stored, rating, lag)

NextFSRS ==
    \/ RecordFirstReview
    \/ RecordReview

SpecFSRS == InitFSRS /\ [][NextFSRS]_vars

\* C10: after any non-empty sequence of reviews of an item that starts from the
\* initial state, the stored state has stability > 0, 1 <= difficulty <= 10,
\* scheduledDays an integer >= 1 equal to max(1, round(stability)), reps >= 0
\* and lapses >= 0.
C10_ItemStateInvariant ==
    stored # None =>
        /\ stored[1].fsrs.stability > 0
        /\ stored[1].fsrs.difficulty >= 10
        /\ stored[1].fsrs.difficulty <= 100
        /\ stored[1].fsrs.scheduledDays \in Nat
        /\ stored[1].fsrs.scheduledDays >= 1
        /\ stored[1].fsrs.scheduledDays = Max(1, Round(stored[1].fsrs.stability))
        /\ stored[1].fsrs.reps >= 0
        /\ stored[1].fsrs.lapses >= 0

\* The lifecycle state of the item: new until its first review is stored
ItemState == IF stored = None THEN createInitialFSRSState.state ELSE stored[1].fsrs.state

\* The edges of new -> learning -> review <-> relearning
LifecycleEdges ==
    { <<"new", "learning">>, <<"learning", "review">>,
      <<"review", "relearning">>, <<"relearning", "review">> }

\* C11: across any sequence of reviews the lifecycle state of an item changes
\* only along new -> learning, learning -> review, review -> relearning and
\* relearning -> review.
C11_LifecycleEdges ==
    [][ItemState' # ItemState => <<ItemState, ItemState'>> \in LifecycleEdges]_vars

(***************************************************************************)
(* One scheduler step on a stored item state                               *)
(***************************************************************************)
\* (stability 2.5, difficulty 5, reps 3, lapses 0, state review, scheduledDays 3)
StepState ==
    [stability |-> (5 * StabilityUnit) \div 2, difficulty |-> 50, elapsedDays |-> 0,
     scheduledDays |-> 3, reps |-> 3, lapses |-> 0, state |-> "review"]

\* Stabilities of 0.1, 0.2, 1, 2.5 and 4 days; difficulties of 0.5, 1, 5, 9.8 and 10
PriorStabilities ==
    {MinStability, 2 * MinStability, StabilityUnit, (5 * StabilityUnit) \div 2, 4 * StabilityUnit}

PriorDifficulties == {5, 10, 50, 98, 100}

\* Item states an LRS may hold: scheduledDays is what applyFSRS left there.
PriorStates ==
    { [stability |-> st, difficulty |-> d, elapsedDays |-> 0,
       scheduledDays |-> Max(1, Round(st)), reps |-> 3, lapses |-> l, state |-> ls] :
          st \in PriorStabilities, d \in PriorDifficulties, l \in {0, 1},
          ls \in {"learning", "review", "relearning"} }

\* The mastery stored with a prior state: 0.5, just below 1, or 1
PriorMasteries == {500, MasteryUnit - 1, MasteryUnit}

InitStep ==
    /\ EngineIdle
    /\ ToolsIdle
    /\ service = FSRSServiceOf(ValidActorJson, None, Some(2))
    /\ statements = <<>>
    /\ \/ stored = None
       \/ \E prior \in PriorStates, mastery \in PriorMasteries :
              stored = Some([fsrs |-> prior, mastery |-> mastery,
                             reviewCount |-> prior.reps + prior.lapses,
                             agent |-> service[1].agent])

SpecStep == InitStep /\ [][NextFSRS]_vars

\* What applyFSRS makes of StepState under a good rating, by the claim and by
\* the code (rating 3: multiplier 1.5, difficulty step 0.1)
StepGoodClaimed ==
    [StepState EXCEPT !.reps = 4, !.elapsedDays = 3]

StepGoodComputed ==
    [StepState EXCEPT !.reps = 4, !.elapsedDays = 3, !.difficulty = 49,
                      !.stability = (15 * StabilityUnit) \div 4, !.scheduledDays = 4]

\* C12 as stated: on (stability 2.5, difficulty 5, reps 3, lapses 0, review,
\* scheduledDays 3) a good rating yields reps 4, stability 2.5, difficulty 5.0,
\* state review and scheduledDays 3.
C12_GoodUnchanged ==
    (stored # None /\ stored[1].fsrs = StepState) =>
        applyFSRS(stored[1].fsrs, "good") = StepGoodClaimed

\* C12, amended: on that state a good rating yields reps 4, stability 3.75
\* (2.5 * 1.5), difficulty 4.9, state review and scheduledDays 4.
C12_GoodStep ==
    (stored # None /\ stored[1].fsrs = StepState) =>
        applyFSRS(stored[1].fsrs, "good") = StepGoodComputed

\* The state stored by the review that follows StepState.
C12_Witness ==
    /\ stored # None
    /\ stored[1].fsrs = StepGoodComputed
    /\ stored[1].reviewCount = 4

\* The state an item is in before a review: the initial state if none is stored
PriorOf == IF stored = None THEN createInitialFSRSState ELSE stored[1].fsrs

\* C13: for every prior item state, the stability after a good rating is >= the
\* stability after a hard rating, which is >= the stability after an again
\* rating on the same prior state.
C13_RatingMonotone ==
    /\ applyFSRS(PriorOf, "good").stability >= applyFSRS(PriorOf, "hard").stability
    /\ applyFSRS(PriorOf, "hard").stability >= applyFSRS(PriorOf, "again").stability

\* An item stored by a review of this behaviour (its elapsedDays were set) on
\* which the three ratings give three different stabilities.
C13_Witness ==
    /\ stored # None
    /\ stored[1].fsrs.elapsedDays > 0
    /\ stored[1].fsrs.stability >= StabilityUnit
    /\ applyFSRS(PriorOf, "good").stability > applyFSRS(PriorOf, "hard").stability
    /\ applyFSRS(PriorOf, "hard").stability > applyFSRS(PriorOf, "again").stability

\* The milestone of a review that takes the stored entry from prev (None for an
\* item not yet stored) to post, by the priority order of the claim.
ClaimedMilestone(prev, post) ==
    LET first      == prev = None \/ prev[1].reviewCount = 0
        before     == IF prev = None THEN 0 ELSE prev[1].mastery
        crossing   == \/ before < service[1].masteryThreshold /\
                         post[1].mastery >= service[1].masteryThreshold
                      \/ before < MasteryUnit /\ post[1].mastery >= MasteryUnit
        transition == /\ prev # None
                      /\ prev[1].fsrs.state # post[1].fsrs.state
                      /\ post[1].fsrs.state \in {"review", "learning"}
        periodic   == post[1].reviewCount % service[1].periodicMilestoneInterval = 0
    IN  CASE first -> Some("first-review")
          [] ~first /\ crossing -> Some("mastery-threshold")
          [] ~first /\ ~crossing /\ transition -> Some("state-transition")
          [] ~first /\ ~crossing /\ ~transition /\ periodic -> Some("periodic")
          [] OTHER -> None

\* C14: a review is classified by the first match of first-review,
\* mastery-threshold, state-transition, periodic, else no milestone; the first
\* recorded review of an item is always first-review; and recordReview stores a
\* review statement, of the classified type, only when a milestone was
\* classified.
C14_MilestonePriority ==
    [][stored' # stored =>
          /\ ClaimedMilestone(stored, stored') = None => statements' = statements
          /\ ClaimedMilestone(stored, stored') # None =>
                 statements' = Append(statements, ClaimedMilestone(stored, stored')[1])
          /\ stored = None =>
                 statements' = Append(statements, "first-review")]_vars

\* Two reviews of a new item: the first is first-review, and the second, whose
\* count 2 is a multiple of the interval, is mastery-threshold, not periodic.
C14_Witness ==
    /\ stored # None
    /\ stored[1].reviewCount = 2
    /\ service[1].periodicMilestoneInterval = 2
    /\ statements = <<"first-review", "mastery-threshold">>

(***************************************************************************)
(* FSRSService.getDueLearnerStates                                         *)
(***************************************************************************)
\* Item ids as character sequences: "a1", "a2", "b1"
ItemIds == {<<"a", "1">>, <<"a", "2">>, <<"b", "1">>}

\* The times of nextReview, of options.before and of the clock
DueTimes == 1..2

\* String.prototype.includes
StringIncludes(text, part) ==
    \E i \in 0..(Len(text) - Len(part)) : SubSeq(text, i + 1, i + Len(part)) = part

\* The Maps getAllFSRSStates can return: entries in row order, one per item id
AllStatesInputs ==
    {m \in UNION {[1..n -> [itemId : ItemIds, nextReview : DueTimes]] : n \in 0..Cardinality(ItemIds)} :
        \A i, j \in DOMAIN m : i # j => m[i].itemId # m[j].itemId}

\* DueQueryOptions: before, lessonId ("" included) and limit, each optional
DueQueryInputs ==
    [before   : {None} \cup {Some(t) : t \in DueTimes},
     lessonId : {None, Some(<<>>), Some(<<"a">>), Some(<<"1">>)},
     limit    : {None, Some(0), Some(1), Some(2)}]

\* dueStates.sort((a, b) => a.nextReview.getTime() - b.nextReview.getTime()):
\* ascending, entries of equal nextReview keep their order
RECURSIVE SortByNextReview(_)
SortByNextReview(states) ==
    IF states = <<>> THEN <<>>
    ELSE LET first  == Head(states)
             rest   == SortByNextReview(Tail(states))
             before == Cardinality({i \in DOMAIN rest : rest[i].nextReview < first.nextReview})
         IN  SubSeq(rest, 1, before) \o <<first>> \o SubSeq(rest, before + 1, Len(rest))

\* array.slice(0, end)
Slice(array, end) ==
    IF end >= 0 THEN SubSeq(array, 1, Min(end, Len(array)))
    ELSE SubSeq(array, 1, Max(0, Len(array) + end))

\* getDueLearnerStates(options) over the Map states, at clock time now
getDueLearnerStates(states, opts, now) ==
    LET before == IF opts.before # None THEN opts.before[1] ELSE now
        Skipped(itemId) == /\ opts.lessonId # None
                           /\ opts.lessonId[1] # <<>>
                           /\ ~StringIncludes(itemId, opts.lessonId[1])
        Pushed(entry) == entry.nextReview <= before /\ ~Skipped(entry.itemId)
        sorted == SortByNextReview(SelectSeq(states, Pushed))
    IN  IF opts.limit # None /\ opts.limit[1] # 0
        THEN Slice(sorted, opts.limit[1])
        ELSE sorted

InitDue ==
    /\ EngineIdle
    /\ FsrsIdle
    /\ MasteryIdle
    /\ ClientIdle
    /\ TreeIdle
    /\ SyncIdle
    /\ allStates \in AllStatesInputs
    /\ dueOptions = None
    /\ dueStates = None

GetDueLearnerStates ==
    \E opts \in DueQueryInputs, now \in DueTimes :
        /\ dueOptions' = Some([options |-> opts, now |-> now])
        /\ dueStates' = Some(getDueLearnerStates(allStates, opts, now))
        /\ UNCHANGED <<allStates, nonDueVars>>

NextDue == GetDueLearnerStates

SpecDue == InitDue /\ [][NextDue]_vars

\* The result the contract describes, for the Map, the options and the clock
\* of the last call: the due entries that pass the filter, ascending, and the
\* first limit of them when a limit is given.
DueStatesAsDescribed ==
    LET opts     == dueOptions[1].options
        result   == dueStates[1]
        before   == IF opts.before # None THEN opts.before[1] ELSE dueOptions[1].now
        Due(entry) == /\ entry.nextReview <= before
                      /\ opts.lessonId # None => StringIncludes(entry.itemId, opts.lessonId[1])
        due      == SelectSeq(allStates, Due)
        returned == {result[i] : i \in DOMAIN result}
    IN  /\ \A i \in DOMAIN result : \E j \in DOMAIN due : due[j] = result[i]
        /\ \A i, j \in DOMAIN result : i < j =>
               /\ result[i].nextReview <= result[j].nextReview
               /\ result[i].itemId # result[j].itemId
        /\ Len(result) = IF opts.limit # None THEN Min(opts.limit[1], Len(due)) ELSE Len(due)
        /\ \A j \in DOMAIN due : due[j] \notin returned =>
               \A i \in DOMAIN result : result[i].nextReview <= due[j].nextReview

\* C15: getDueLearnerStates returns exactly the stored items with
\* nextReview <= before whose id contains lessonId when one is given, sorted
\* ascending by nextReview and cut to the first limit items when a limit is
\* given; nothing later than before is returned and nothing due is left out
\* except by the filter or the limit.
C15_DueStates == dueStates # None => DueStatesAsDescribed

\* The same with a limit of 0 set aside
DueStatesUnlessLimitZero ==
    (dueStates # None /\ dueOptions[1].options.limit # Some(0)) => DueStatesAsDescribed

(***************************************************************************)
(* calculateMastery on learner states of any shape                         *)
(***************************************************************************)
\* Points of time, in units of 1/StabilityUnit days: 0, 0.1 days, 1, 3 and 6 days
ClockTimes == {0, StabilityUnit \div 10, StabilityUnit, 3 * StabilityUnit, 6 * StabilityUnit}

\* The keys activityMastery can have: the ActivityType values
MaxActivities == 7

\* LearnerState: state.stability from 0.1 days up, state.scheduledDays,
\* lastReviewed and the number of keys of activityMastery
LearnerInputs ==
    [state : [stability : {MinStability, StabilityUnit, (5 * StabilityUnit) \div 2},
              scheduledDays : {0, 1, 3}],
     lastReviewed : {0, 3 * StabilityUnit},
     activitiesUsed : 0..MaxActivities]

\* Math.max(0, (Date.now() - lastReviewed.getTime()) / (1000 * 60 * 60 * 24))
DaysSinceReview(now, lastReviewed) == Max(0, now - lastReviewed)

InitMastery ==
    /\ EngineIdle
    /\ FsrsIdle
    /\ DueIdle
    /\ ClientIdle
    /\ TreeIdle
    /\ SyncIdle
    /\ learner \in {Some(l) : l \in LearnerInputs}
    /\ estimate = None

\* calculateMastery(learnerState) at clock time now
CalculateMastery ==
    \E now \in ClockTimes :
        /\ estimate' = Some([now |-> now,
                             mastery |-> calculateMastery(DaysSinceReview(now, learner[1].lastReviewed),
                                                          learner[1].state, learner[1].activitiesUsed)])
        /\ UNCHANGED <<learner, nonMasteryVars>>

NextMastery == CalculateMastery

SpecMastery == InitMastery /\ [][NextMastery]_vars

\* C16: the mastery estimate of calculateMastery is within [0, 1] for every
\* stability >= 0.1, every non-negative number of days since the last review,
\* every scheduledDays and every number of activity types used.
C16_MasteryInUnitInterval ==
    estimate # None => (estimate[1].mastery >= 0 /\ estimate[1].mastery <= MasteryUnit)

\* A call whose sum is below 0 (retention under the overdue penalty) and is cut to 0
MasteryCutAtZero ==
    /\ estimate # None
    /\ estimate[1].mastery = 0
    /\ calculateMastery_Unclamped(DaysSinceReview(estimate[1].now, learner[1].lastReviewed),
                                  learner[1].state, learner[1].activitiesUsed) < 0

\* A call whose sum exceeds 1 (no time passed, an activity bonus) and is cut to 1
C16_Witness ==
    /\ estimate # None
    /\ estimate[1].now <= learner[1].lastReviewed
    /\ learner[1].activitiesUsed > 0
    /\ estimate[1].mastery = MasteryUnit

(***************************************************************************)
(* Identity input that is no JSON                                          *)
(***************************************************************************)
\* C17: malformed identity input is never silently defaulted: a collaborator
\* constructed with an actor string that is no JSON fails at construction,
\* and no operation runs with a substituted default agent. Here: a review is
\* stored only by a service whose launch actor parses, and never under the
\* default agent.
C17_NoDefaultAgent ==
    stored # None =>
        /\ JSONParse(service[1].actor) # None
        /\ stored[1].agent # DefaultAgent

(***************************************************************************)
(* CMI5StateManager over XAPIClient and the local LRS                      *)
(***************************************************************************)
\* options.activityId of the managers
ActivityId == "test-activity"

DEFAULT_STATE_ID == "cmi5.runtime"

\* launchParams of the managers: the actor text and the optional registration
LaunchInputs ==
    [actor : ActorStrings \cup {RegisteredActorJson},
     registration : {None, Some("default"), Some("reg-1")}]

ObjectiveIds == {"obj-1", "obj-2"}

\* The (mastery, satisfied) pairs updateObjectiveState is called with
ObjectiveUpdates == {[mastery |-> 0, satisfied |-> FALSE], [mastery |-> 80, satisfied |-> TRUE]}

\* The most updateObjectiveState calls on one manager
MaxUpdates == 2

\* The most updateProgress calls on one manager
MaxLessons == 1

\* The most saveState calls on one manager
MaxSaves == 2

\* The state the constructor sets
InitialState(launchParams) ==
    [registration    |-> OrElse(launchParams.registration, "unknown"),
     objectiveStates |-> EmptyMap,
     progress        |-> [completedLessons |-> <<>>, timeSpent |-> 0, currentLesson |-> None],
     completed       |-> FALSE]

\* new CMI5StateManager(launchParams, options): the fields, None where it throws
CMI5StateManagerOf(launchParams) ==
    IF JSONParse(launchParams.actor) = None THEN None
    ELSE Some([launchParams |-> launchParams,
               actor |-> JSONParse(launchParams.actor)[1],
               state |-> InitialState(launchParams)])

updateObjectiveState(state, objectiveId, nodeId, mastery, satisfied) ==
    LET existing == MapGet(state.objectiveStates, objectiveId)
    IN  [state EXCEPT !.objectiveStates =
            MapSet(@, objectiveId,
                   [objectiveId |-> objectiveId, nodeId |-> nodeId, kubitId |-> nodeId,
                    mastery |-> mastery, satisfied |-> satisfied,
                    attempts |-> (IF existing # None THEN existing[1].attempts ELSE 0) + 1])]

updateProgress(state, lessonId, timeSpent) ==
    [state EXCEPT !.progress =
        [currentLesson    |-> Some(lessonId),
         timeSpent        |-> @.timeSpent + timeSpent,
         completedLessons |-> IF Includes(@.completedLessons, lessonId)
                              THEN @.completedLessons
                              ELSE Append(@.completedLessons, lessonId)]]

\* Object.fromEntries(map): the members of the plain object, in order
ObjectFromEntries(map) ==
    [i \in 1..Len(map.keys) |-> <<map.keys[i], map.val[map.keys[i]]>>]

\* new Map(entries)
RECURSIVE MapOfEntries(_)
MapOfEntries(entries) ==
    IF entries = <<>> THEN EmptyMap
    ELSE LET last == entries[Len(entries)]
         IN  MapSet(MapOfEntries(SubSeq(entries, 1, Len(entries) - 1)), last[1], last[2])

\* XAPIClient.saveState on a local LRS, LRSStore.saveCMI5State: one more row,
\* under the registration of the state
saveState(table, activityId, stateId, agent, state) ==
    Append(table, [registration |-> IF state.registration # "" THEN state.registration ELSE "default",
                   activityId |-> activityId, stateId |-> stateId, agent |-> agent,
                   state |-> state])

\* XAPIClient.getState on a local LRS, LRSStore.getCMI5State: the rows the
\* query selects from, under the registration of the agent. The query has
\* LIMIT 1 and no ORDER BY, so it returns any one of them, or null.
StateRows(table, activityId, stateId, agent) ==
    LET registration == IF "registration" \in DOMAIN agent THEN agent.registration ELSE "default"
    IN  {i \in DOMAIN table : /\ table[i].registration = registration
                              /\ table[i].activityId = activityId
                              /\ table[i].stateId = stateId}

\* initialize(): the state made of a saved state
StateOfSaved(saved, launchParams) ==
    [registration    |-> IF saved.registration # "" THEN saved.registration
                         ELSE OrElse(launchParams.registration, "unknown"),
     objectiveStates |-> MapOfEntries(
         [i \in DOMAIN saved.objectiveStates |->
             LET key   == saved.objectiveStates[i][1]
                 value == saved.objectiveStates[i][2]
             IN  <<key, [objectiveId |-> IF value.objectiveId # "" THEN value.objectiveId ELSE key,
                         nodeId      |-> IF value.nodeId # None THEN value.nodeId ELSE value.kubitId,
                         kubitId     |-> IF value.kubitId # None THEN value.kubitId ELSE value.nodeId,
                         mastery     |-> IF value.mastery # 0 THEN value.mastery ELSE 0,
                         satisfied   |-> IF value.satisfied THEN value.satisfied ELSE FALSE,
                         attempts    |-> IF value.attempts # 0 THEN value.attempts ELSE 0]>>]),
     progress        |-> saved.progress,
     completed       |-> IF saved.completed THEN saved.completed ELSE FALSE]

TotalAttempts(state) ==
    LET RECURSIVE Sum(_)
        Sum(ks) == IF ks = <<>> THEN 0
                   ELSE state.objectiveStates.val[Head(ks)].attempts + Sum(Tail(ks))
    IN  Sum(state.objectiveStates.keys)

InitClient ==
    /\ EngineIdle
    /\ FsrsIdle
    /\ DueIdle
    /\ MasteryIdle
    /\ TreeIdle
    /\ SyncIdle
    /\ rows = <<>>
    /\ manager \in {CMI5StateManagerOf(launchParams) : launchParams \in LaunchInputs}
    /\ loaded = None
    /\ overall = None

UpdateObjectiveState ==
    /\ manager # None
    /\ TotalAttempts(manager[1].state) < MaxUpdates
    /\ \E objectiveId \in ObjectiveIds, update \in ObjectiveUpdates :
           manager' = Some([manager[1] EXCEPT !.state =
               updateObjectiveState(@, objectiveId, Some("node-1"), update.mastery, update.satisfied)])
    /\ UNCHANGED <<rows, loaded, overall, nonClientVars>>

UpdateProgress ==
    /\ manager # None
    /\ manager[1].state.progress.timeSpent < MaxLessons
    /\ manager' = Some([manager[1] EXCEPT !.state = updateProgress(@, "lesson-1", 1)])
    /\ UNCHANGED <<rows, loaded, overall, nonClientVars>>

\* manager.saveState()
SaveState ==
    /\ manager # None
    /\ Len(rows) < MaxSaves
    /\ rows' = saveState(rows, ActivityId, DEFAULT_STATE_ID, manager[1].actor,
                         [manager[1].state EXCEPT !.objectiveStates = ObjectFromEntries(@)])
    /\ UNCHANGED <<manager, loaded, overall, nonClientVars>>

\* A second manager of the same launch parameters, activity id and LRS, and
\* its initialize()
LoadState ==
    /\ manager # None
    /\ LET second == CMI5StateManagerOf(manager[1].launchParams)[1]
           found  == StateRows(rows, ActivityId, DEFAULT_STATE_ID, second.actor)
       IN  IF found = {}
           THEN loaded' = Some(second.state)
           ELSE \E i \in found : loaded' = Some(StateOfSaved(rows[i].state, second.launchParams))
    /\ UNCHANGED <<rows, manager, overall, nonClientVars>>

\* The objectiveIds arrays getOverallMastery is called with
ObjectiveIdLists ==
    {ids \in UNION {[1..n -> ObjectiveIds] : n \in 0..Cardinality(ObjectiveIds)} :
        \A i, j \in DOMAIN ids : i # j => ids[i] # ids[j]}

\* array.reduce((sum, m) => sum + m, 0)
RECURSIVE SumOf(_)
SumOf(array) == IF array = <<>> THEN 0 ELSE Head(array) + SumOf(Tail(array))

\* getOverallMastery(objectiveIds): the value returned as a fraction of
\* hundredths, sum / count
getOverallMastery(state, objectiveIds) ==
    LET mapped    == [i \in DOMAIN objectiveIds |->
                         LET found == MapGet(state.objectiveStates, objectiveIds[i])
                         IN  IF found # None /\ found[1].mastery # 0 THEN found[1].mastery ELSE 0]
        masteries == SelectSeq(mapped, LAMBDA m : m > 0)
    IN  IF Len(objectiveIds) = 0 THEN [sum |-> 0, count |-> 1]
        ELSE IF Len(masteries) = 0 THEN [sum |-> 0, count |-> 1]
        ELSE [sum |-> SumOf(masteries), count |-> Len(masteries)]

GetOverallMastery ==
    /\ manager # None
    /\ \E objectiveIds \in ObjectiveIdLists :
           overall' = Some([objectiveIds |-> objectiveIds,
                            value |-> getOverallMastery(manager[1].state, objectiveIds)])
    /\ UNCHANGED <<rows, manager, loaded, nonClientVars>>

NextClient ==
    UpdateObjectiveState \/ UpdateProgress \/ SaveState \/ LoadState \/ GetOverallMastery

SpecClient == InitClient /\ [][NextClient]_vars

\* C18: the state written by saveState is the state a later getState returns;
\* so after any updates and saveState calls on a manager, a second manager of
\* the same launch parameters, activity id and LRS has after initialize() the
\* objective states and the progress of the most recent saveState.
C18_RoundTrip ==
    [][(loaded' # loaded /\ rows # <<>>) =>
          /\ ObjectFromEntries(loaded'[1].objectiveStates) = rows[Len(rows)].state.objectiveStates
          /\ loaded'[1].progress = rows[Len(rows)].state.progress]_vars

\* The mastery an objective counts with in the average of all listed
\* objectives: its recorded mastery, 0 without a record
CountedMastery(state, objectiveId) ==
    IF MapHas(state.objectiveStates, objectiveId)
    THEN state.objectiveStates.val[objectiveId].mastery
    ELSE 0

\* C19: getOverallMastery(objectiveIds) returns the average mastery of all the
\* listed objectives, one without recorded state or with mastery 0 counting
\* as 0, and 0 for an empty list.
C19_OverallMastery ==
    [][overall' # overall =>
          LET ids   == overall'[1].objectiveIds
              value == overall'[1].value
              total == SumOf([i \in DOMAIN ids |-> CountedMastery(manager[1].state, ids[i])])
          IN  IF ids = <<>> THEN value.sum = 0
              ELSE value.sum * Len(ids) = total * value.count]_vars

(***************************************************************************)
(* validateCMI5Tree                                                        *)
(***************************************************************************)
ValidUrl == "https://example.com/au-1"

\* z.string().url() and new URL(text) on the texts of the model
IsValidUrl(text) == text = ValidUrl

\* String.prototype.trim on the texts of the model
Trim(text) == IF text = " " THEN "" ELSE text

\* The children arrays of an AU node: objectives of two ids, with and without
\* a nodeId
ObjectiveLists ==
    LET obj(id, nodeId) == [type |-> "cmi5:objective", id |-> id, masteryScore |-> Some(80),
                            nodeId |-> nodeId]
    IN  {<<>>, <<obj("obj-1", Some("node-1"))>>, <<obj("obj-1", None)>>,
         <<obj("obj-1", Some("node-1")), obj("obj-2", Some("node-1"))>>,
         <<obj("obj-1", Some("node-1")), obj("obj-1", None)>>}

\* AU nodes: launch URL valid or not, masteryScore 0.8 or 1.5
AUNodes ==
    [type : {"cmi5:au"}, id : {"au-1", "au-2"}, title : {"AU 1"},
     launchUrl : {ValidUrl, "not-a-url"}, masteryScore : {None, Some(80), Some(150)},
     children : ObjectiveLists]

\* Course nodes with up to two AUs; id and title can be empty, the id blank
CourseNodes ==
    [type : {"cmi5:course"}, id : {"course-1", " ", ""}, title : {"Test Course", ""},
     children : UNION {[1..n -> AUNodes] : n \in 0..2}]

\* CMI5ObjectiveNodeSchema.safeParse(node).success
validateCMI5ObjectiveNode(node) ==
    /\ node.type = "cmi5:objective"
    /\ node.id # ""
    /\ node.masteryScore # None => (node.masteryScore[1] >= 0 /\ node.masteryScore[1] <= 100)

\* CMI5AssignableUnitNodeSchema.safeParse(node).success
validateCMI5AUNode(node) ==
    /\ node.type = "cmi5:au"
    /\ node.id # ""
    /\ node.title # ""
    /\ IsValidUrl(node.launchUrl)
    /\ node.masteryScore # None => (node.masteryScore[1] >= 0 /\ node.masteryScore[1] <= 100)
    /\ \A i \in DOMAIN node.children : validateCMI5ObjectiveNode(node.children[i])

\* CMI5CourseNodeSchema.safeParse(node).success
validateCMI5CourseNode(node) ==
    /\ node.type = "cmi5:course"
    /\ node.id # ""
    /\ node.title # ""
    /\ \A i \in DOMAIN node.children : validateCMI5AUNode(node.children[i])

\* The nodes unist-util-visit calls the visitor with: the tree itself first,
\* then each child and its descendants, in order
RECURSIVE Visited(_)
Visited(node) ==
    LET RECURSIVE Of(_)
        Of(children) == IF children = <<>> THEN <<>>
                        ELSE Visited(Head(children)) \o Of(Tail(children))
    IN  <<node>> \o (IF "children" \in DOMAIN node THEN Of(node.children) ELSE <<>>)

\* The visitor of validateCMI5Tree on one node
VisitNode(acc, node) ==
    IF node.type = "cmi5:course" THEN
        IF node.id \in acc.courseIds
        THEN [acc EXCEPT !.errors = Append(@, [error |-> "Duplicate course ID", id |-> node.id])]
        ELSE [acc EXCEPT !.courseIds = @ \cup {node.id}]
    ELSE IF node.type = "cmi5:au" THEN
        LET ids  == IF node.id \in acc.auIds
                    THEN [acc EXCEPT !.errors = Append(@, [error |-> "Duplicate AU ID", id |-> node.id])]
                    ELSE [acc EXCEPT !.auIds = @ \cup {node.id}]
            str  == IF ~validateCMI5AUNode(node)
                    THEN [ids EXCEPT !.errors = Append(@, [error |-> "Invalid AU node structure", id |-> node.id])]
                    ELSE ids
            url  == IF node.launchUrl = "" \/ ~IsValidUrl(node.launchUrl)
                    THEN [str EXCEPT !.errors = Append(@, [error |-> "Invalid launch URL", id |-> node.id])]
                    ELSE str
            sco  == IF node.masteryScore # None
                       /\ (node.masteryScore[1] < 0 \/ node.masteryScore[1] > 100)
                    THEN [url EXCEPT !.errors = Append(@, [error |-> "Invalid mastery score for AU", id |-> node.id])]
                    ELSE url
        IN  IF Len(node.children) = 0
            THEN [sco EXCEPT !.warnings = Append(@, [warning |-> "AU has no objectives", id |-> node.id])]
            ELSE sco
    ELSE IF node.type = "cmi5:objective" THEN
        LET ids  == IF node.id \in acc.objectiveIds
                    THEN [acc EXCEPT !.errors = Append(@, [error |-> "Duplicate objective ID", id |-> node.id])]
                    ELSE [acc EXCEPT !.objectiveIds = @ \cup {node.id}]
            str  == IF ~validateCMI5ObjectiveNode(node)
                    THEN [ids EXCEPT !.errors = Append(@, [error |-> "Invalid objective node structure", id |-> node.id])]
                    ELSE ids
            sco  == IF node.masteryScore # None
                       /\ (node.masteryScore[1] < 0 \/ node.masteryScore[1] > 100)
                    THEN [str EXCEPT !.errors = Append(@, [error |-> "Invalid mastery score for objective", id |-> node.id])]
                    ELSE str
        IN  IF node.nodeId = None
            THEN [sco EXCEPT !.warnings = Append(@, [warning |-> "Objective has no nodeId or kubitId", id |-> node.id])]
            ELSE sco
    ELSE acc

\* visitCMI5Tree(tree, visitor) over the nodes in visiting order
RECURSIVE VisitAll(_, _)
VisitAll(acc, nodes) ==
    IF nodes = <<>> THEN acc ELSE VisitAll(VisitNode(acc, Head(nodes)), Tail(nodes))

\* The closing pass: an objective below an AU that is none of its children
StructureErrors(courseNode) ==
    LET RECURSIVE OfAUs(_)
        OfAUs(aus) ==
            IF aus = <<>> THEN <<>>
            ELSE LET auNode == Head(aus)
                     below  == SelectSeq(Visited(auNode), LAMBDA n : n.type = "cmi5:objective")
                     stray  == SelectSeq(below, LAMBDA n : ~Includes(auNode.children, n))
                 IN  [i \in DOMAIN stray |->
                         [error |-> "Objective is not a direct child of AU", id |-> stray[i].id]]
                     \o OfAUs(Tail(aus))
    IN  OfAUs(SelectSeq(Visited(courseNode), LAMBDA n : n.type = "cmi5:au"))

validateCMI5Tree(node) ==
    IF ~validateCMI5CourseNode(node)
    THEN [valid |-> FALSE,
          errors |-> <<[error |-> "Root node must be a CMI5 course node", id |-> node.id]>>,
          warnings |-> <<>>]
    ELSE LET idError    == IF node.id = "" \/ Trim(node.id) = ""
                           THEN <<[error |-> "Course node must have a non-empty ID", id |-> node.id]>>
                           ELSE <<>>
             titleError == IF node.title = "" \/ Trim(node.title) = ""
                           THEN <<[error |-> "Course node must have a non-empty title", id |-> node.id]>>
                           ELSE <<>>
             start      == [courseIds |-> {node.id}, auIds |-> {}, objectiveIds |-> {},
                            errors |-> idError \o titleError, warnings |-> <<>>]
             visited    == VisitAll(start, Visited(node))
             errors     == visited.errors \o StructureErrors(node)
         IN  [valid |-> Len(errors) = 0, errors |-> errors, warnings |-> visited.warnings]

InitTree ==
    /\ EngineIdle
    /\ FsrsIdle
    /\ DueIdle
    /\ MasteryIdle
    /\ ClientIdle
    /\ SyncIdle
    /\ tree \in {Some(t) : t \in CourseNodes}
    /\ validation = None

ValidateCMI5Tree ==
    /\ tree # None
    /\ validation' = Some(validateCMI5Tree(tree[1]))
    /\ UNCHANGED <<tree, nonTreeVars>>

NextTree == ValidateCMI5Tree

SpecTree == InitTree /\ [][NextTree]_vars

\* A well-formed tree: a course root with non-empty id and title, AUs with a
\* valid launch URL and a masteryScore within [0, 1], and ids that differ
\* within each node type
WellFormed(course) ==
    LET nodes == Visited(course)
    IN  /\ course.type = "cmi5:course"
        /\ Trim(course.id) # ""
        /\ Trim(course.title) # ""
        /\ \A i \in DOMAIN course.children :
               /\ IsValidUrl(course.children[i].launchUrl)
               /\ course.children[i].masteryScore # None =>
                      (course.children[i].masteryScore[1] >= 0 /\ course.children[i].masteryScore[1] <= 100)
        /\ \A i, j \in DOMAIN nodes :
               (i # j /\ nodes[i].type = nodes[j].type) => nodes[i].id # nodes[j].id

\* C20: validateCMI5Tree returns valid = true and no errors for every
\* well-formed tree, and reports errors only for actual defects: a
\* duplicate-id error only when two distinct nodes of one type share an id.
C20_WellFormedIsValid ==
    validation # None =>
        /\ WellFormed(tree[1]) => (validation[1].valid /\ validation[1].errors = <<>>)
        /\ \A e \in DOMAIN validation[1].errors :
               validation[1].errors[e].error \in
                   {"Duplicate course ID", "Duplicate AU ID", "Duplicate objective ID"}
               => LET nodes == Visited(tree[1])
                  IN  \E i, j \in DOMAIN nodes :
                          /\ i # j
                          /\ nodes[i].type = nodes[j].type
                          /\ nodes[i].id = validation[1].errors[e].id
                          /\ nodes[j].id = validation[1].errors[e].id

(***************************************************************************)
(* Prerequisite satisfaction under the two policies                        *)
(***************************************************************************)
\* The move-on flag of unit id as the table of its configured criteria gives it
\* from the unit's own completion and pass facts.
MoveOnFlag(id) ==
    CASE ConfiguredMoveOn(id) = "NotApplicable" -> TRUE
      [] ConfiguredMoveOn(id) = "Completed" -> Eval(id).completion.isComplete
      [] ConfiguredMoveOn(id) = "Passed" -> Eval(id).pass.isPassed
      [] ConfiguredMoveOn(id) = "CompletedAndPassed" ->
             Eval(id).completion.isComplete /\ Eval(id).pass.isPassed

\* Prerequisite p, a unit of the course, counts as satisfied.
SatisfiedUnderPolicy(p) ==
    IF options.prerequisitePolicy = "moveOn" THEN MoveOnFlag(p)
    ELSE Eval(p).completion.isComplete

\* Prerequisite p is listed in unmetIds.
ListedUnmet(p) ==
    IF p \in UnitIds(index) THEN ~SatisfiedUnderPolicy(p)
    ELSE options.missingPrerequisiteBehavior = "lock"

\* C21: the move-on flag of every unit follows its configured criteria
\* (NotApplicable or unset: true; Completed: isComplete; Passed: isPassed;
\* CompletedAndPassed: both); a prerequisite is satisfied under the moveOn policy
\* iff its move-on flag holds and under the completion policy iff it is complete;
\* unmetIds is exactly the list of the prerequisites that are not satisfied, plus
\* the missing ones under the lock behaviour, in the order of the prerequisites.
C21_PrerequisiteSatisfaction ==
    \A id \in EvaluatedIds :
        /\ Eval(id).moveOn.isSatisfied = MoveOnFlag(id)
        /\ Eval(id).prerequisites.unmetIds =
               SelectSeq(index.aus.val[id].prerequisites, ListedUnmet)

\* Under the moveOn policy a unit is held back by a prerequisite that is complete
\* but not passed and is configured CompletedAndPassed.
C21_Witness ==
    /\ Evaluated
    /\ options.prerequisitePolicy = "moveOn"
    /\ \E id \in EvaluatedIds : \E p \in PrereqsOf(id) \cap UnitIds(index) :
           /\ p # id
           /\ ConfiguredMoveOn(p) = "CompletedAndPassed"
           /\ Eval(p).completion.isComplete
           /\ ~Eval(p).pass.isPassed
           /\ Includes(Eval(id).prerequisites.unmetIds, p)

(***************************************************************************)
(* A course with a unit that declares no objectives and a unit whose       *)
(* objectives carry a nodeId and a kubitId; records are stored under the   *)
(* objective id, the nodeId and the kubitId.                               *)
(***************************************************************************)
FactObjA == Objective("o1", None, Some("n1"), Some("k1"))

FactObjB == Objective("o2", Some(50), None, Some("k1"))

FactShape ==
    <<Skeleton("E", Some(1), None, <<>>),
      Skeleton("M", Some(2), Some(<<"E">>), <<FactObjA, FactObjB>>)>>

FactProfiles ==
    { [E |-> Policy(None, Some("Passed"), None),
       M |-> Policy(Some(90), Some("Passed"),
                    Some(Criteria(Some(50), None, None, Some(FALSE), None)))],
      [E |-> Policy(None, Some("CompletedAndPassed"),
                    Some(Criteria(None, Some(50), None, None, None))),
       M |-> Policy(Some(90), Some("CompletedAndPassed"),
                    Some(Criteria(None, Some(50), Some(2), None, None)))],
      [E |-> Policy(Some(0), Some("Passed"),
                    Some(Criteria(Some(0), None, Some(0), None, None))),
       M |-> Policy(None, None,
                    Some(Criteria(None, None, None, Some(TRUE), Some(TRUE))))] }

FactCourses == {CourseOf(FactShape, profile) : profile \in FactProfiles}

FactOptions == {EngineOptions(None, None, None), EngineOptions(Some(60), Some("moveOn"), None)}

FactKeys == {"o1", "n1", "k1"}

FactSignals ==
    { [contentCompleted |-> Some(TRUE),  exercisesCompleted |-> None],
      [contentCompleted |-> None,        exercisesCompleted |-> Some(TRUE)],
      [contentCompleted |-> Some(FALSE), exercisesCompleted |-> Some(FALSE)] }

InitFacts ==
    /\ \E course \in FactCourses : index = buildCourseIndex(course)
    /\ options \in FactOptions
    /\ progress = EmptyProgress
    /\ snapshot = NoSnapshot
    /\ memo = None
    /\ ServicesIdle

\* a record is stored under an objective id, a nodeId or a kubitId, then evaluate
RecordUnderKey ==
    \E key \in FactKeys, rec \in ObjectiveRecords :
        EvaluateWith(WithObjectiveState(progress, key, rec))

\* the content layer reports one of the lesson signals, then evaluate
ReportSignal ==
    \E id \in UnitIds(index), signal \in FactSignals :
        EvaluateWith(WithLessonSignal(progress, id, signal))

NextFacts ==
    \/ Evaluate
    \/ RecordUnderKey
    \/ CompleteLesson
    \/ ReportSignal

SpecFacts == InitFacts /\ [][NextFacts]_vars

(***************************************************************************)
(* The completion verdict                                                  *)
(***************************************************************************)
\* The configured value of a criterion of unit id (None: not configured)
Configured(id, field) == CriteriaField(index.aus.val[id].completionCriteria, field)

\* The checks of unit id as described: the names of the constructed checks ...
ConstructedChecks(id) ==
    {f \in {"masteryScore", "minMasteredCount"} : Configured(id, f) # None}
    \cup {f \in {"masteryPercentage"} :
              Configured(id, f) # None /\ Eval(id).objectives.total > 0}
    \cup {f \in {"requireAllContent", "requireAllExercises"} : Truthy(Configured(id, f))}

\* ... and what each of them tests.
CheckHolds(id, f) ==
    LET facts  == Eval(id).objectives
        signal == ProgressLessonSignal(progress, id)
    IN  CASE f = "masteryScore" ->
                 facts.masteryAverage.num >= Configured(id, f)[1] * facts.masteryAverage.den
          [] f = "masteryPercentage" ->
                 facts.mastered * 100 >= Configured(id, f)[1] * facts.total
          [] f = "minMasteredCount" -> facts.mastered >= Configured(id, f)[1]
          [] f = "requireAllContent" ->
                 signal # None /\ signal[1].contentCompleted = Some(TRUE)
          [] f = "requireAllExercises" ->
                 signal # None /\ signal[1].exercisesCompleted = Some(TRUE)

DescribedVerdict(id) ==
    LET facts  == Eval(id).objectives
        signal == ProgressLessonSignal(progress, id)
    IN  IF ConstructedChecks(id) # {}
        THEN \A f \in ConstructedChecks(id) : CheckHolds(id, f)
        ELSE IF facts.total > 0 THEN facts.mastered = facts.total
        ELSE signal # None /\ (signal[1].contentCompleted = Some(TRUE)
                               \/ signal[1].exercisesCompleted = Some(TRUE))

\* C22: for a unit that is not in completedLessons, isComplete is the verdict of
\* the evaluator: one check per configured criterion (masteryAverage >=
\* masteryScore; masteredCount / total >= masteryPercentage, skipped when the
\* unit has no objectives; masteredCount >= minMasteredCount; contentCompleted
\* when requireAllContent; exercisesCompleted when requireAllExercises), complete
\* iff all constructed checks hold; with no check constructed, complete iff all
\* objectives are mastered when there is at least one, else iff either lesson
\* signal is set.
C22_CompletionVerdict ==
    \A id \in EvaluatedIds :
        ~Eval(id).completion.fromState =>
            (Eval(id).completion.isComplete <=> DescribedVerdict(id))

\* A unit without objectives whose only configured criterion is the skipped
\* masteryPercentage, complete by a lesson signal alone, and a unit with two
\* objectives and two checks that both hold.
C22_Witness ==
    /\ Evaluated
    /\ \E id \in EvaluatedIds :
           /\ ~Eval(id).completion.fromState
           /\ Eval(id).objectives.total = 0
           /\ Configured(id, "masteryPercentage") # None
           /\ ConstructedChecks(id) = {}
           /\ Eval(id).completion.isComplete
    /\ \E id \in EvaluatedIds :
           /\ ~Eval(id).completion.fromState
           /\ Cardinality(ConstructedChecks(id)) = 2
           /\ Eval(id).objectives.total = 2
           /\ Eval(id).completion.isComplete

(***************************************************************************)
(* Mastery resolution                                                      *)
(***************************************************************************)
\* The records of the progress snapshot, by key (no cmi5State: none)
StoredRecords == IF progress.cmi5State = None THEN <<>> ELSE progress.cmi5State[1].objectiveStates

\* The keys an objective is looked up under, in order
LookupKeys(objective) ==
    <<objective.id>>
    \o (IF objective.nodeId # None THEN <<objective.nodeId[1]>> ELSE <<>>)
    \o (IF objective.kubitId # None THEN <<objective.kubitId[1]>> ELSE <<>>)

IsStoredKey(k) == k \in DOMAIN StoredRecords

\* The effective mastery score of an objective of unit id
EffectiveScore(id, objective) ==
    IF objective.masteryScore # None THEN objective.masteryScore[1]
    ELSE IF index.aus.val[id].masteryScore # None THEN index.aus.val[id].masteryScore[1]
    ELSE options.defaultMasteryScore

\* The fact of the objective as described
DescribedFact(id, objective) ==
    LET found == SelectSeq(LookupKeys(objective), IsStoredKey)
        score == EffectiveScore(id, objective)
    IN  IF found # <<>>
        THEN LET rec == StoredRecords[Head(found)]
             IN  [mastery   |-> rec.mastery,
                  attempts  |-> rec.attempts,
                  source    |-> "cmi5",
                  satisfied |-> IF rec.satisfied # None THEN rec.satisfied[1]
                                ELSE rec.mastery >= score]
        ELSE [mastery |-> 0, attempts |-> 0, source |-> "none", satisfied |-> 0 >= score]

\* C23: every objective fact of every snapshot comes from the first record
\* found under the objective id, the nodeId, the kubitId, in that order: its
\* mastery and attempts, and its stored satisfied flag (mastery >= effective
\* score when it has none); with no record the fact is mastery 0, attempts 0,
\* source none, satisfied = (0 >= effective score). The effective score is the
\* objective's masteryScore, else the unit's, else the global default.
C23_MasteryResolution ==
    \A id \in EvaluatedIds : \A i \in DOMAIN index.aus.val[id].objectives :
        LET objective == index.aus.val[id].objectives[i]
            fact      == Eval(id).objectives.details[i]
            described == DescribedFact(id, objective)
        IN  /\ fact.masteryScore = EffectiveScore(id, objective)
            /\ fact.mastery = described.mastery
            /\ fact.attempts = described.attempts
            /\ fact.source = described.source
            /\ fact.satisfied = described.satisfied

\* Records under the nodeId and under the kubitId but none under the objective
\* id, the two different: the first objective takes the nodeId's record, whose
\* stored flag says unsatisfied at mastery 0.9, the second takes the kubitId's.
C23_Witness ==
    /\ Evaluated
    /\ DOMAIN StoredRecords = {"n1", "k1"}
    /\ StoredRecords["n1"] = [mastery |-> 90, satisfied |-> Some(FALSE), attempts |-> 0]
    /\ StoredRecords["k1"] = [mastery |-> 50, satisfied |-> None, attempts |-> 1]
    /\ ~Eval("M").objectives.details[1].satisfied
    /\ Eval("M").objectives.details[1].mastery = 90
    /\ Eval("M").objectives.details[2].satisfied
    /\ Eval("M").objectives.details[2].mastery = 50

(***************************************************************************)
(* The pass verdict                                                        *)
(***************************************************************************)
\* The pass threshold of unit id as described
DescribedThreshold(id) ==
    IF Configured(id, "masteryScore") # None THEN Configured(id, "masteryScore")[1]
    ELSE IF index.aus.val[id].masteryScore # None THEN index.aus.val[id].masteryScore[1]
    ELSE options.defaultMasteryScore

\* C24: isPassed = (the unit has at least one objective) and (masteryAverage >=
\* passThreshold), the threshold being completionCriteria.masteryScore, else the
\* unit's masteryScore, else the global default; a unit with no objectives is
\* never passed, its status is never passed, and under move-on Passed or
\* CompletedAndPassed its move-on flag is never satisfied.
C24_PassVerdict ==
    \A id \in EvaluatedIds :
        LET facts == Eval(id).objectives IN
        /\ Eval(id).pass.masteryScore = DescribedThreshold(id)
        /\ Eval(id).pass.isPassed <=>
               (facts.total > 0
                /\ facts.masteryAverage.num >= DescribedThreshold(id) * facts.masteryAverage.den)
        /\ index.aus.val[id].objectives = <<>> =>
               /\ ~Eval(id).pass.isPassed
               /\ Eval(id).status # "passed"
               /\ ConfiguredMoveOn(id) \in {"Passed", "CompletedAndPassed"} =>
                      ~Eval(id).moveOn.isSatisfied

\* A unit with no objectives and a pass threshold of 0 (its average of 0 reaches
\* it), configured Passed, listed in completedLessons: complete and not passed.
C24_Witness ==
    /\ Evaluated
    /\ \E id \in EvaluatedIds :
           /\ index.aus.val[id].objectives = <<>>
           /\ DescribedThreshold(id) = 0
           /\ ConfiguredMoveOn(id) = "Passed"
           /\ Eval(id).completion.fromState
           /\ Eval(id).status = "in-progress"
           /\ ~Eval(id).moveOn.isSatisfied

(***************************************************************************)
(* The second pass in another order                                        *)
(***************************************************************************)
\* A course of three units, each a prerequisite of another one, the first of
\* them also waiting for a unit that does not exist.
OrderShape ==
    <<Skeleton("A", Some(1), Some(<<"C", "X">>), <<Obj1>>),
      Skeleton("B", Some(2), Some(<<"A">>), <<Obj2>>),
      Skeleton("C", Some(3), Some(<<"B", "A">>), <<>>)>>

InitOrder ==
    /\ \E profile \in Profiles : index = buildCourseIndex(CourseOf(OrderShape, profile))
    /\ options \in OptionsInputs
    /\ progress = EmptyProgress
    /\ snapshot = NoSnapshot
    /\ memo = None
    /\ ServicesIdle

NextOrder ==
    \/ Evaluate
    \/ RecordObjective
    \/ CompleteLesson

SpecOrder == InitOrder /\ [][NextOrder]_vars

\* The orders the units can be processed in: the permutations of the keys
Orders(keys) ==
    {order \in [DOMAIN keys -> Range(keys)] :
        \A i, j \in DOMAIN keys : i # j => order[i] # order[j]}

\* The result of the second pass run in the given order over the facts of the
\* first pass
SecondPassIn(order) ==
    SecondPassLoop(order, index, options,
                   FirstPassLoop(index.aus.keys, index, progress, options, EmptyMap))

\* C25: the second pass is order-independent: processing the units in any order
\* gives every unit the status and the prerequisite facts of the snapshot.
C25_OrderIndependent ==
    Evaluated =>
        \A order \in Orders(index.aus.keys) :
            \A id \in EvaluatedIds :
                /\ SecondPassIn(order).val[id].status = Eval(id).status
                /\ SecondPassIn(order).val[id].prerequisites = Eval(id).prerequisites

\* Three units, one of them not locked although its prerequisite, a complete
\* unit, is locked in the same snapshot: the status the second pass writes for
\* the prerequisite is not what its dependant is judged by.
C25_Witness ==
    /\ Evaluated
    /\ Cardinality(EvaluatedIds) = 3
    /\ \E id \in EvaluatedIds : \E p \in PrereqsOf(id) \cap UnitIds(index) :
           /\ p # id
           /\ Eval(p).status = "locked"
           /\ Eval(p).completion.isComplete
           /\ Eval(id).status # "locked"

(***************************************************************************)
(* The two branches of applyFSRS                                           *)
(***************************************************************************)
\* C26: an again rating on any prior item state increases lapses by 1, leaves
\* reps unchanged, sets difficulty to min(10, difficulty + 0.5), stability to
\* max(0.1, stability * 0.5) and the state to relearning; on (stability 2.5,
\* difficulty 5, lapses 0) it yields lapses 1, difficulty 5.5, stability 1.25,
\* state relearning and scheduledDays 1.
C26_AgainStep ==
    LET prior == PriorOf
        next  == applyFSRS(prior, "again")
    IN  /\ next.lapses = prior.lapses + 1
        /\ next.reps = prior.reps
        /\ next.difficulty = IF prior.difficulty + 5 > 100 THEN 100 ELSE prior.difficulty + 5
        /\ IF prior.stability >= 2 * MinStability
           THEN 2 * next.stability = prior.stability
           ELSE next.stability = MinStability
        /\ next.state = "relearning"
        /\ (prior.stability = (5 * StabilityUnit) \div 2 /\ prior.difficulty = 50
            /\ prior.lapses = 0) =>
               /\ next.lapses = 1
               /\ next.difficulty = 55
               /\ 4 * next.stability = 5 * StabilityUnit
               /\ next.scheduledDays = 1

\* The state stored by an again rating on StepState.
C26_Witness ==
    /\ stored # None
    /\ stored[1].reviewCount = 4
    /\ stored[1].fsrs = [StepState EXCEPT !.lapses = 1, !.difficulty = 55,
                                         !.stability = (5 * StabilityUnit) \div 4,
                                         !.state = "relearning", !.elapsedDays = 3,
                                         !.scheduledDays = 1]

\* The ratings of the recalled branch
Recalled == {"hard", "good", "easy"}

\* C27: a hard, good or easy rating increases reps by exactly 1 and leaves
\* lapses unchanged; the resulting state is learning when the updated stability
\* is below 1, review when it is at least 1 and the prior state was new or
\* learning, and the prior state otherwise.
C27_RecalledStep ==
    \A rating \in Recalled :
        LET prior == PriorOf
            next  == applyFSRS(prior, rating)
        IN  /\ next.reps = prior.reps + 1
            /\ next.lapses = prior.lapses
            /\ next.state =
                   IF next.stability < StabilityUnit THEN "learning"
                   ELSE IF prior.state \in {"new", "learning"} THEN "review"
                   ELSE prior.state

\* A relearning item (difficulty 5, one lapse, three reps) after a good rating:
\* its stability is at least 1 and it is still relearning.
C27_Witness ==
    /\ stored # None
    /\ stored[1].fsrs.state = "relearning"
    /\ stored[1].fsrs.reps = 4
    /\ stored[1].fsrs.lapses = 1
    /\ stored[1].fsrs.difficulty = 49
    /\ stored[1].fsrs.stability >= StabilityUnit

(***************************************************************************)
(* Recovery from relearning: an item that has just been forgotten (an      *)
(* again rating on a state the LRS holds) and is from then on rated hard,  *)
(* good or easy only.                                                      *)
(***************************************************************************)
\* Reviews of the item after the lapse that the model follows
MaxRecalls == 4

\* What recordReview stores for an again rating on a stored item
AfterAgain(prior, agent) ==
    LET updatedFsrsState == applyFSRS(prior, "again")
    IN  [fsrs        |-> updatedFsrsState,
         mastery     |-> calculateMastery(0, updatedFsrsState, 0),
         reviewCount |-> prior.reps + prior.lapses + 1,
         agent       |-> agent]

InitRecover ==
    /\ EngineIdle
    /\ ToolsIdle
    /\ service = FSRSServiceOf(ValidActorJson, None, Some(2))
    /\ statements = <<>>
    /\ \E prior \in PriorStates : stored = Some(AfterAgain(prior, service[1].agent))

\* recordReview with a hard, good or easy rating
RecallReview ==
    /\ stored # None
    /\ stored[1].fsrs.reps < 3 + MaxRecalls
    /\ \E rating \in Recalled, lag \in ReviewLags : RecordReviewWith(stored, rating, lag)

NextRecover == RecallReview

\* The learner keeps reviewing the item.
SpecRecover == InitRecover /\ [][NextRecover]_vars /\ WF_vars(RecallReview)

Relearning == stored # None /\ stored[1].fsrs.state = "relearning"

InReview == stored # None /\ stored[1].fsrs.state = "review"

RelearningKept ==
    [][(Relearning /\ stored[1].fsrs.stability >= StabilityUnit) => Relearning']_vars

(***************************************************************************)
(* CloudSyncManager.  Its async methods run on one JavaScript thread: a    *)
(* call runs to its first await, and what follows the await is a           *)
(* continuation that waits in the microtask queue.  getPendingStatements   *)
(* returns [] in this code, so a sync body is its first part (the guard,   *)
(* syncing = true, a new AbortController), one await, and its last part    *)
(* (pendingCount = 0, syncing = false, abortController = null);            *)
(* sendToCloud and markAsSynced are not reached and nothing rejects.       *)
(* The methods may be called at any time by the application; a timer       *)
(* callback runs only when no continuation waits.                          *)
(***************************************************************************)
\* Continuations that wait at a time, and timers scheduled at a time
MaxCalls == 3

MaxTimers == 3

\* new CloudSyncManager(localLRS, options)
CloudSyncManagerOf(enabled, syncInterval) ==
    Some([options         |-> [enabled      |-> OrElse(enabled, FALSE),
                               syncInterval |-> OrElse(syncInterval, 30000)],
          status          |-> [syncing |-> FALSE, pendingCount |-> 0,
                               enabled |-> OrElse(enabled, FALSE)],
          syncIntervalId  |-> None,
          abortController |-> None])

\* What waits in the queue: the rest of a sync body (op "sync") and the rest
\* of a start() call (op "start"), with the caller that awaits the sync.
Continuation(op, caller) == [op |-> op, caller |-> caller]

\* What the caller of sync() does once the promise of sync() is resolved:
\* start() goes on to set the interval; syncNow() and the timer callback
\* have nothing left to do.
Awaiting(caller) == IF caller = "start" THEN <<Continuation("start", caller)>> ELSE <<>>

\* sync(), up to its first await
sync(m, queue, caller) ==
    IF ~m.options.enabled \/ m.status.syncing
    THEN [cloud |-> m, microtasks |-> queue \o Awaiting(caller)]
    ELSE [cloud      |-> [m EXCEPT !.status.syncing = TRUE,
                                   !.abortController = Some("AbortController")],
          microtasks |-> Append(queue, Continuation("sync", caller))]

\* sync(), after await this.getPendingStatements(): statements.length === 0,
\* then the finally block; the promise resolves and the caller goes on.
syncResumed(m, queue, caller) ==
    [cloud      |-> [m EXCEPT !.status.pendingCount = 0,
                              !.status.syncing = FALSE,
                              !.abortController = None],
     microtasks |-> queue \o Awaiting(caller)]

\* start(), up to await this.sync()
start(m, queue) ==
    IF ~m.options.enabled THEN [cloud |-> m, microtasks |-> queue]
    ELSE sync(m, queue, "start")

\* The id setInterval returns: one that no scheduled timer has
FreshTimer(scheduled) == CHOOSE id \in 1..(Cardinality(scheduled) + 1) : id \notin scheduled

\* start(), after await this.sync(): the periodic sync is set up
startResumed(m, scheduled) ==
    IF m.options.syncInterval > 0
    THEN [cloud  |-> [m EXCEPT !.syncIntervalId = Some(FreshTimer(scheduled))],
          timers |-> scheduled \cup {FreshTimer(scheduled)}]
    ELSE [cloud |-> m, timers |-> scheduled]

\* stop()
stop(m, scheduled) ==
    [cloud  |-> [m EXCEPT !.syncIntervalId = None,
                          !.abortController = None,
                          !.status.syncing = FALSE],
     timers |-> IF m.syncIntervalId # None THEN scheduled \ {m.syncIntervalId[1]}
                ELSE scheduled]

\* enable(), its synchronous part: the flags, then start()
enable(m, queue) ==
    start([m EXCEPT !.options.enabled = TRUE, !.status.enabled = TRUE], queue)

\* disable()
disable(m, scheduled) ==
    [cloud  |-> [stop(m, scheduled).cloud EXCEPT !.options.enabled = FALSE,
                                                 !.status.enabled = FALSE],
     timers |-> stop(m, scheduled).timers]

\* The start() calls that have not settled
PendingStarts == Cardinality({i \in DOMAIN microtasks : microtasks[i].caller = "start"})

\* The sync bodies in flight: begun and not finished
InFlight == Cardinality({i \in DOMAIN microtasks : microtasks[i].op = "sync"})

\* The model follows a call while the queue and the timers have room for it.
Room == Len(microtasks) < MaxCalls /\ Cardinality(timers) + PendingStarts < MaxTimers

InitSync ==
    /\ EngineIdle
    /\ FsrsIdle
    /\ DueIdle
    /\ MasteryIdle
    /\ ClientIdle
    /\ TreeIdle
    /\ cloud \in {CloudSyncManagerOf(enabled, syncInterval) :
                     enabled \in {None, Some(TRUE)}, syncInterval \in {None, Some(0)}}
    /\ microtasks = <<>>
    /\ timers = {}
    /\ halted = FALSE

\* syncManager.start()
Start ==
    /\ Room
    /\ cloud' = Some(start(cloud[1], microtasks).cloud)
    /\ microtasks' = start(cloud[1], microtasks).microtasks
    /\ halted' = FALSE
    /\ UNCHANGED <<timers, nonSyncVars>>

\* syncManager.stop()
Stop ==
    /\ cloud' = Some(stop(cloud[1], timers).cloud)
    /\ timers' = stop(cloud[1], timers).timers
    /\ halted' = TRUE
    /\ UNCHANGED <<microtasks, nonSyncVars>>

\* syncManager.enable()
Enable ==
    /\ Room
    /\ cloud' = Some(enable(cloud[1], microtasks).cloud)
    /\ microtasks' = enable(cloud[1], microtasks).microtasks
    /\ halted' = FALSE
    /\ UNCHANGED <<timers, nonSyncVars>>

\* syncManager.disable()
Disable ==
    /\ cloud' = Some(disable(cloud[1], timers).cloud)
    /\ timers' = disable(cloud[1], timers).timers
    /\ halted' = TRUE
    /\ UNCHANGED <<microtasks, nonSyncVars>>

\* syncManager.syncNow()
SyncNow ==
    /\ Len(microtasks) < MaxCalls
    /\ cloud' = Some(sync(cloud[1], microtasks, "syncNow").cloud)
    /\ microtasks' = sync(cloud[1], microtasks, "syncNow").microtasks
    /\ UNCHANGED <<timers, halted, nonSyncVars>>

\* The callback of a scheduled timer: this.sync().catch(...)
Tick ==
    /\ microtasks = <<>>
    /\ timers # {}
    /\ cloud' = Some(sync(cloud[1], microtasks, "timer").cloud)
    /\ microtasks' = sync(cloud[1], microtasks, "timer").microtasks
    /\ UNCHANGED <<timers, halted, nonSyncVars>>

\* The continuation at the head of the microtask queue runs.
RunMicrotask ==
    /\ microtasks # <<>>
    /\ IF Head(microtasks).op = "sync"
       THEN /\ cloud' = Some(syncResumed(cloud[1], Tail(microtasks),
                                         Head(microtasks).caller).cloud)
            /\ microtasks' = syncResumed(cloud[1], Tail(microtasks),
                                         Head(microtasks).caller).microtasks
            /\ timers' = timers
       ELSE /\ cloud' = Some(startResumed(cloud[1], timers).cloud)
            /\ timers' = startResumed(cloud[1], timers).timers
            /\ microtasks' = Tail(microtasks)
    /\ UNCHANGED <<halted, nonSyncVars>>

NextSync ==
    \/ Start
    \/ Stop
    \/ Enable
    \/ Disable
    \/ SyncNow
    \/ Tick
    \/ RunMicrotask

SpecSync == InitSync /\ [][NextSync]_vars

\* C29: in every interleaving of start, stop, enable, disable, syncNow and
\* timer ticks at most one sync body is in flight, and status.syncing is true
\* exactly while a sync body is in flight.
C29_SingleFlight ==
    /\ InFlight <= 1
    /\ cloud[1].status.syncing <=> (InFlight = 1)

\* The third part of that claim (this holds under SpecSync): no sync body begins
\* while the manager is disabled.
BegunEnabled == [][InFlight' > InFlight => cloud'[1].options.enabled]_vars

\* C30: once stop() or disable() has returned and every pending start() has
\* settled, no periodic sync timer is scheduled; and at no time is more than
\* one periodic timer scheduled.
C30_TimerHygiene ==
    /\ Cardinality(timers) <= 1
    /\ (halted /\ PendingStarts = 0) => timers = {}

=============================================================================
